---------------------------- MODULE Spec2Model ----------------------------
(***************************************************************************)
(* A model of pyTTRPGsimulator's combat resolution core: the damage        *)
(* pipeline (actors.py), the actions (actions.py), the strategies          *)
(* (combat_strategies.py) and the CombatManager turn/round machine         *)
(* (combat.py).                                                            *)
(*                                                                         *)
(* The sources mix two revisions of the Actor interface: actions.py and    *)
(* combat_strategies.py read current_action_points where actors.py and     *)
(* combat.py read action_points, and combat.py hands Attack/Help a         *)
(* one-element list where actions.py takes the target itself.  The model   *)
(* reads both names as the one action point pool of actors.py and the      *)
(* one-element list as its element.                                        *)
(***************************************************************************)
EXTENDS Integers, Sequences, FiniteSets, TLC

VARIABLES
    actor,              \* name -> the Actor object's mutable fields
    turn_order,         \* CombatManager.turn_order
    current_turn_index, \* CombatManager.current_turn_index
    has_initiative,     \* CombatManager.has_initiative
    rounds_count,       \* CombatManager.rounds_count
    turns_count,        \* CombatManager.turns_count
    pc,                 \* position inside run_combat / run_round / execute_turn
    cur,                \* the actor whose execute_turn is running
    round_i,            \* iterations done by run_round's for loop
    loop_parity,        \* parity of the iterations execute_turn's loop has made
    result,             \* what run_combat returned
    attack_log,         \* what the last Attack.execute logged
    damage_log,         \* what the take_damage calls of the last action logged
    ops,                \* operations executed so far (direct-call specifications)
    last_call,          \* the last direct call and its arguments (direct-call specifications)
    round_turns,        \* the actors execute_turn has run for in the current run_round call
    rounds_started,     \* the run_round calls made since the manager was constructed or reset
    entity              \* an Entity: its base attributes, its traits and its attribute cache

vars == <<actor, turn_order, current_turn_index, has_initiative, rounds_count,
          turns_count, pc, cur, round_i, loop_parity, result, attack_log,
          damage_log, ops, last_call, round_turns, rounds_started, entity>>

manager_vars == <<turn_order, current_turn_index, has_initiative, rounds_count,
                  turns_count, pc, cur, round_i, loop_parity, result>>

-----------------------------------------------------------------------------
(* Bounds of the model *)

MaxRounds == 4          \* run_combat is cut off once rounds_count reaches it
MaxOps == 3             \* operations per run of the direct-call specifications
MaxDamageValue == 4     \* largest magnitude of a directly inflicted damage event

-----------------------------------------------------------------------------
(* Python built-ins used by the code *)

NONE == "None"

Range(s) == {s[i] : i \in 1..Len(s)}

Max(a, b) == IF a >= b THEN a ELSE b

RECURSIVE SumSeq(_)
SumSeq(s) == IF s = <<>> THEN 0 ELSE Head(s) + SumSeq(Tail(s))

RECURSIVE ProdSeq(_)
ProdSeq(s) == IF s = <<>> THEN 1 ELSE Head(s) * ProdSeq(Tail(s))

MinOfSet(S) == CHOOSE x \in S : \A y \in S : x <= y

MaxOfSet(S) == CHOOSE x \in S : \A y \in S : x >= y

\* list.remove(x): drops the first occurrence of x
RECURSIVE RemoveFirst(_, _)
RemoveFirst(s, x) ==
    IF s = <<>> THEN <<>>
    ELSE IF Head(s) = x THEN Tail(s)
    ELSE <<Head(s)>> \o RemoveFirst(Tail(s), x)

\* [f(e) for e in s]
MapSeq(s, F(_)) == [i \in 1..Len(s) |-> F(s[i])]

-----------------------------------------------------------------------------
(* damages.py: the damage type taxonomy *)

PhysicalKinds == {"Bludgeoning", "Cold", "Corrosion", "Fire", "Lightning",
                  "Piercing", "Poison", "Slashing"}

MysticalKinds == {"Psychic", "Radiant", "Sonic", "Umbral"}

DamageTypes == {"Physical", "Mystical"} \cup PhysicalKinds \cup MysticalKinds

\* the base class a damage class was created from
BaseClass(t) ==
    IF t \in PhysicalKinds THEN "Physical"
    ELSE IF t \in MysticalKinds THEN "Mystical"
    ELSE "DamageType"

\* issubclass(t, u) / isinstance(t(), u)
IsInstance(t, u) == t = u \/ BaseClass(t) = u \/ u = "DamageType"

Damage(t, v) == [damage_type |-> t, value |-> v]

-----------------------------------------------------------------------------
(* The actors of the fight and their construction data *)

team_a == <<"a1", "a2">>

team_b == <<"b1">>

Actors == Range(team_a) \cup Range(team_b)

initiative_dc == 10

\* a duration of math.inf is timed = FALSE
DefenseModifier(pd, pdr, mdr) ==
    [kind |-> "DefenseModifier", timed |-> FALSE, duration |-> 0,
     physical_defense |-> pd, physical_damage_reduction |-> pdr,
     mystical_damage_reduction |-> mdr]

Resistance(t, v, m) ==
    [kind |-> "Resistance", timed |-> FALSE, duration |-> 0,
     damage_type |-> t, value |-> v, is_multiplicative |-> m]

Vulnerability(t, v, m) ==
    [kind |-> "Vulnerability", timed |-> FALSE, duration |-> 0,
     damage_type |-> t, value |-> v, is_multiplicative |-> m]

\* a modifier constructed with a finite duration
Timed(m, duration) == [m EXCEPT !.timed = TRUE, !.duration = duration]

\* Constructor arguments of each Actor, and of the items it is equipped with
ActorSheet ==
    [a1 |-> [max_health_points |-> 3, max_mana_points |-> 0, max_stamina_points |-> 0,
             max_action_points |-> 3, prime_modifier |-> 3, combat_mastery |-> 1,
             base_physical_defense |-> 8,
             modifiers |-> <<DefenseModifier(2, 1, 0), Timed(DefenseModifier(0, 0, 1), 2)>>,
             weapon_damages |-> <<Damage("Slashing", 1)>>,
             weapon_styles |-> <<"Sword_style">>,
             conditions |-> {},
             bless_dice |-> 0, hit_damage |-> 0,
             target_mode |-> "target_weakest"],
     a2 |-> [max_health_points |-> 2, max_mana_points |-> 0, max_stamina_points |-> 1,
             max_action_points |-> 2, prime_modifier |-> 2, combat_mastery |-> 1,
             base_physical_defense |-> 30,
             modifiers |-> <<DefenseModifier(0, 1, 1), Resistance("Slashing", 1, FALSE)>>,
             weapon_damages |-> <<Damage("Piercing", 1), Damage("Radiant", 1)>>,
             weapon_styles |-> <<>>,
             conditions |-> {},
             bless_dice |-> 1, hit_damage |-> 0,
             target_mode |-> "help_ally"],
     b1 |-> [max_health_points |-> 4, max_mana_points |-> 1, max_stamina_points |-> 0,
             max_action_points |-> 3, prime_modifier |-> 3, combat_mastery |-> 1,
             base_physical_defense |-> 11,
             modifiers |-> <<Vulnerability("Radiant", 2, TRUE)>>,
             weapon_damages |-> <<Damage("Slashing", 2)>>,
             weapon_styles |-> <<>>,
             conditions |-> {"Exposed"},
             bless_dice |-> 0, hit_damage |-> 0,
             target_mode |-> "random"]]

max_health_points(a) == ActorSheet[a].max_health_points

max_mana_points(a) == ActorSheet[a].max_mana_points

max_stamina_points(a) == ActorSheet[a].max_stamina_points

max_action_points(a) == ActorSheet[a].max_action_points

prime_modifier(a) == ActorSheet[a].prime_modifier

combat_mastery(a) == ActorSheet[a].combat_mastery

\* attributes.py actor_attributes: the defaults every actor is built with
max_attack_before_penalty == 1

critical_hit_threshold == 20

critical_hit_damage == 2

heavy_hit_damage == 1

brutal_hit_damage == 1

\* Actor.__init__: the death threshold every actor is built with
death_threshold == -3

-----------------------------------------------------------------------------
(* actors.py: Actor *)

\* Actor.__init__: the mutable fields after construction
NewActor(a, strat) ==
    [health_points |-> max_health_points(a),
     mana_points |-> max_mana_points(a),
     stamina_points |-> max_stamina_points(a),
     action_points |-> max_action_points(a),
     modifiers |-> ActorSheet[a].modifiers,
     strategy |-> strat,
     target_mode |-> ActorSheet[a].target_mode,
     current_target |-> NONE,
     targeting_enemies |-> <<>>,
     attack_count |-> 0,
     advantage_count |-> 0,
     one_time_hit_bonus |-> 0,
     help_count |-> 0,
     is_dodging |-> FALSE,
     is_full_dodging |-> FALSE]

is_alive(A, a) == A[a].health_points > 0

\* Actor.aggregate_modifiers: the modifiers that are instances of base_class
aggregate_modifiers(A, a, base_class) ==
    LET OfClass(m) == m.kind = base_class
    IN SelectSeq(A[a].modifiers, OfClass)

resistances(A, a) == aggregate_modifiers(A, a, "Resistance")

vulnerabilities(A, a) == aggregate_modifiers(A, a, "Vulnerability")

physical_defense(A, a) ==
    LET Field(m) == m.physical_defense
    IN ActorSheet[a].base_physical_defense
         + SumSeq(MapSeq(aggregate_modifiers(A, a, "DefenseModifier"), Field))

physical_damage_reduction(A, a) ==
    LET Field(m) == m.physical_damage_reduction
    IN SumSeq(MapSeq(aggregate_modifiers(A, a, "DefenseModifier"), Field))

mystical_damage_reduction(A, a) ==
    LET Field(m) == m.mystical_damage_reduction
    IN SumSeq(MapSeq(aggregate_modifiers(A, a, "DefenseModifier"), Field))

\* Actor.calculate_damage_taken, lines 279-287: the modifiers whose damage type
\* is an instance of the class of the event's damage type
matching(mods, damage) ==
    LET Matches(m) == IsInstance(m.damage_type, damage.damage_type)
    IN SelectSeq(mods, Matches)

additive_sum(mods) ==
    LET Additive(m) == ~m.is_multiplicative
        Value(m) == m.value
    IN SumSeq(MapSeq(SelectSeq(mods, Additive), Value))

multiplicative_product(mods) ==
    LET Multiplicative(m) == m.is_multiplicative
        Value(m) == m.value
    IN ProdSeq(MapSeq(SelectSeq(mods, Multiplicative), Value))

\* lines 289-298
apply_resistances(A, a, damage, damage_value) ==
    LET res == matching(resistances(A, a), damage)
    IN (damage_value - additive_sum(res)) * multiplicative_product(res)

apply_vulnerabilities_swapped(A, a, damage, damage_value) ==
    LET vul == matching(vulnerabilities(A, a), damage)
    IN damage_value * multiplicative_product(vul) + additive_sum(vul)

\* lines 300-311
apply_vulnerabilities(A, a, damage, damage_value) ==
    LET vul == matching(vulnerabilities(A, a), damage)
    IN (damage_value + additive_sum(vul)) * multiplicative_product(vul)

\* lines 313-318
armor_reduction(A, a, damage) ==
    IF ~IsInstance(damage.damage_type, "Physical")
    THEN mystical_damage_reduction(A, a)
    ELSE physical_damage_reduction(A, a)

\* lines 274-319: the value before the final clamp
damage_before_clamp(A, a, damage) ==
    apply_vulnerabilities(A, a, damage, apply_resistances(A, a, damage, damage.value))
        - armor_reduction(A, a, damage)

calculate_damage_taken_unclamped(A, a, damage) ==
    damage_before_clamp(A, a, damage)

\* Actor.calculate_damage_taken
calculate_damage_taken(A, a, damage) ==
    Max(damage_before_clamp(A, a, damage), 0)

\* sum of calculate_damage_taken over a list of damages
RECURSIVE total_damage(_, _, _)
total_damage(A, a, damages) ==
    IF damages = <<>> THEN 0
    ELSE calculate_damage_taken(A, a, Head(damages)) + total_damage(A, a, Tail(damages))

take_damage_twice(st, a, damages) ==
    LET total == total_damage(st.actor, a, damages)
        before == st.actor[a].health_points
    IN [st EXCEPT !.actor[a].health_points = before - 2 * total,
                  !.damage_log = Append(@, [target |-> a, damages |-> damages,
                                            total_damage |-> total, hp_before |-> before,
                                            hp_after |-> before - 2 * total])]

\* Actor.take_damage on the threaded state st = [actor, damage_log].  The method
\* of actors.py takes the list of damages and nothing else: a caller's
\* ignore_damage_reduction reaches no parameter and changes nothing here.
take_damage(st, a, damages) ==
    LET total == total_damage(st.actor, a, damages)
        before == st.actor[a].health_points
    IN [st EXCEPT !.actor[a].health_points = before - total,
                  !.damage_log = Append(@, [target |-> a, damages |-> damages,
                                            total_damage |-> total, hp_before |-> before,
                                            hp_after |-> before - total])]

-----------------------------------------------------------------------------
(* actions.py *)

Cost(ap, mp, sp) ==
    [action_points_cost |-> ap, mana_points_cost |-> mp, stamina_points_cost |-> sp]

CanPay_action_points_only(A, a, cost) ==
    ~(A[a].action_points < cost.action_points_cost)

\* Action._apply_costs: whether the three pools cover the cost
CanPay(A, a, cost) ==
    /\ ~(A[a].action_points < cost.action_points_cost)
    /\ ~(A[a].mana_points < cost.mana_points_cost)
    /\ ~(A[a].stamina_points < cost.stamina_points_cost)

Pay_twice(A, a, cost) ==
    [A EXCEPT ![a].action_points = @ - 2 * cost.action_points_cost,
              ![a].mana_points = @ - 2 * cost.mana_points_cost,
              ![a].stamina_points = @ - 2 * cost.stamina_points_cost]

\* Action._apply_costs: the deduction
Pay(A, a, cost) ==
    [A EXCEPT ![a].action_points = @ - cost.action_points_cost,
              ![a].mana_points = @ - cost.mana_points_cost,
              ![a].stamina_points = @ - cost.stamina_points_cost]

\* InflictDamage.execute: each damage of the action goes to each target in turn
RECURSIVE InflictEach(_, _, _)
InflictEach(st, target, damages) ==
    IF damages = <<>> THEN st
    ELSE InflictEach(take_damage(st, target, <<Head(damages)>>), target, Tail(damages))

RECURSIVE InflictAll(_, _, _)
InflictAll(st, targets, damages) ==
    IF targets = <<>> THEN st
    ELSE InflictAll(InflictEach(st, Head(targets), damages), Tail(targets), damages)

InflictDamage_execute(st, source, targets, cost, damages) ==
    IF ~CanPay(st.actor, source, cost) THEN st
    ELSE InflictAll([st EXCEPT !.actor = Pay(st.actor, source, cost), !.damage_log = <<>>],
                    targets, damages)

\* GainAdvantage(action_points_cost=1).execute(source)
GainAdvantage_cost == Cost(1, 0, 0)

GainAdvantage_execute(st, source) ==
    IF ~CanPay(st.actor, source, GainAdvantage_cost) THEN st
    ELSE LET A == Pay(st.actor, source, GainAdvantage_cost)
         IN [st EXCEPT !.actor = [A EXCEPT ![source].advantage_count = @ + 1]]

\* The faces a d20 shows in the model: random.randint(1, 20) sampled
DieFaces == {6, 11, 16, 20}

disadvantage_count_flags_add_up(A, source_attack_count, target) ==
    Max(0, source_attack_count - max_attack_before_penalty)
      + (IF A[target].is_full_dodging THEN 1 ELSE 0)
      + (IF A[target].is_dodging THEN 1 ELSE 0)

\* Attack.execute, lines 110-120
disadvantage_count(A, source_attack_count, target) ==
    Max(0, source_attack_count - max_attack_before_penalty)
      + (IF A[target].is_full_dodging \/ A[target].is_dodging THEN 1 ELSE 0)

\* lines 124-127: how many dice are rolled
roll_count(advantage, disadvantage) == Max(disadvantage + 1 - advantage, 1)

\* lines 129-133: the die that is kept
kept_roll(rolls, advantage, disadvantage) ==
    IF advantage > disadvantage THEN MaxOfSet(Range(rolls)) ELSE MinOfSet(Range(rolls))

\* every value the kept die can take
attack_rolls(advantage, disadvantage) ==
    {kept_roll(rolls, advantage, disadvantage) :
        rolls \in [1..roll_count(advantage, disadvantage) -> DieFaces]}

\* Actor.get_bonus_roll: one d4 per granted die, summed; the lowest and the
\* highest sum stand for the range
get_bonus_roll(a) ==
    LET k == ActorSheet[a].bless_dice IN IF k = 0 THEN {0} ELSE {k, 4 * k}

\* weapon_styles.py: the conditions of the defender a style gives +1 damage for
StyleConditions(style) ==
    CASE style = "Axe_style" -> {"Bleeding"}
      [] style = "Bow_style" -> {"Slowed"}
      [] style = "Fist_style" -> {"Grappled"}
      [] style = "Hammer_style" -> {"Dazed", "Petrified"}
      [] style = "Pick_style" -> {"Impaired"}
      [] style = "Staff_style" -> {"Hindered", "Petrified"}
      [] style = "Sword_style" -> {"Exposed"}

\* Weapon.apply_styles: <<bonus damage, bonus to hit>> against the defender
apply_styles(source, defender) ==
    LET Bonus(style) ==
            IF StyleConditions(style) \cap ActorSheet[defender].conditions # {} THEN 1 ELSE 0
    IN <<SumSeq(MapSeq(ActorSheet[source].weapon_styles, Bonus)), 0>>

is_hit_on_total_only(attack_tot_target, defense, is_critical_hit) ==
    attack_tot_target >= defense

\* Attack.execute, line 184
is_hit(attack_tot_target, defense, is_critical_hit) ==
    attack_tot_target >= defense \/ is_critical_hit

heavy_brutal_bonus_off_by_one(attack_tot_target, defense) ==
    IF attack_tot_target >= defense + 5
    THEN heavy_hit_damage + ((attack_tot_target - defense) \div 5) * brutal_hit_damage
    ELSE 0

\* lines 190-206: the heavy/brutal part of the damage bonus
heavy_brutal_bonus(attack_tot_target, defense) ==
    IF attack_tot_target >= defense + 5
    THEN heavy_hit_damage + (((attack_tot_target - defense) \div 5) - 1) * brutal_hit_damage
    ELSE 0

\* lines 213-230: one take_damage call per damage component of the weapon
RECURSIVE apply_weapon_damages(_, _, _, _, _)
apply_weapon_damages(st, target, damages, ij, first_bonus) ==
    IF ij > Len(damages) THEN st
    ELSE LET total == IF ij = 1 THEN damages[ij].value + first_bonus ELSE damages[ij].value
         IN apply_weapon_damages(
                take_damage(st, target, <<Damage(damages[ij].damage_type, total)>>),
                target, damages, ij + 1, first_bonus)

Attack_cost == Cost(1, 0, 0)

use_one_time_hit_bonus_keeps_it(A, source) == A

\* Attack.execute, lines 181-182: the one-time hit bonus is removed once used
use_one_time_hit_bonus(A, source) == [A EXCEPT ![source].one_time_hit_bonus = 0]

\* Attack.execute(source, target) with the kept die and the general roll bonus
Attack_execute(st, source, target, attack_roll, bonus_to_hit) ==
    IF ~CanPay(st.actor, source, Attack_cost) THEN st
    ELSE
    LET A1 == [Pay(st.actor, source, Attack_cost) EXCEPT ![source].attack_count = @ + 1]
        advantage == A1[source].advantage_count
        disadvantage == disadvantage_count(A1, A1[source].attack_count, target)
        dodged == A1[target].is_full_dodging \/ A1[target].is_dodging
        A2 == IF dodged THEN [A1 EXCEPT ![target].is_dodging = FALSE] ELSE A1
        one_time == A2[source].one_time_hit_bonus
        attack_tot == attack_roll + prime_modifier(source) + combat_mastery(source)
                        + one_time + bonus_to_hit
        is_critical_hit == attack_roll = critical_hit_threshold
        ws == apply_styles(source, target)
        attack_tot_target == attack_tot + ws[2]
        A3 == use_one_time_hit_bonus(A2, source)
        defense == physical_defense(A3, target)
        hit == is_hit(attack_tot_target, defense, is_critical_hit)
        is_heavy_hit == attack_tot_target >= defense + 5
        heavy_bonus == heavy_brutal_bonus(attack_tot_target, defense)
        damage_bonus == heavy_bonus
                          + (IF is_critical_hit THEN critical_hit_damage ELSE 0)
                          + ActorSheet[source].hit_damage
        st3 == [st EXCEPT !.actor = A3, !.damage_log = <<>>]
        st4 == IF hit
               THEN apply_weapon_damages(st3, target, ActorSheet[source].weapon_damages, 1,
                                         damage_bonus + ws[1])
               ELSE st3
    IN [st4 EXCEPT !.attack_log =
            [source |-> source, target |-> target,
             advantage_count |-> advantage, disadvantage_count |-> disadvantage,
             n_rolls |-> roll_count(advantage, disadvantage),
             attack_roll |-> attack_roll, one_time_hit_bonus |-> one_time,
             bonus_to_hit |-> bonus_to_hit,
             attack_tot_target |-> attack_tot_target, physical_defense |-> defense,
             is_critical_hit |-> is_critical_hit, hit |-> hit,
             is_heavy_hit |-> hit /\ is_heavy_hit,
             heavy_bonus |-> IF hit THEN heavy_bonus ELSE 0,
             damage_bonus |-> IF hit THEN damage_bonus ELSE 0,
             style_bonus |-> ws[1],
             ignore_damage_reduction |-> hit /\ (is_critical_hit \/ is_heavy_hit),
             applied |-> st4.damage_log]]

\* the dice the attack of source on target may keep, given the state before it
Attack_rolls(A, source, target) ==
    attack_rolls(A[source].advantage_count,
                 disadvantage_count(A, A[source].attack_count + 1, target))

Dodge_cost == Cost(1, 0, 0)

\* Dodge.execute(source, target): the target defaults to the source
Dodge_execute(st, source, target) ==
    LET tgt == IF target = NONE THEN source ELSE target
    IN IF ~CanPay(st.actor, source, Dodge_cost) THEN st
       ELSE [st EXCEPT !.actor = [Pay(st.actor, source, Dodge_cost)
                                     EXCEPT ![tgt].is_dodging = TRUE]]

Full_Dodge_cost == Cost(2, 0, 0)

\* Full_Dodge.execute(source, target)
Full_Dodge_execute(st, source, target) ==
    LET tgt == IF target = NONE THEN source ELSE target
    IN IF ~CanPay(st.actor, source, Full_Dodge_cost) THEN st
       ELSE [st EXCEPT !.actor = [Pay(st.actor, source, Full_Dodge_cost)
                                     EXCEPT ![tgt].is_full_dodging = TRUE]]

Help_cost == Cost(1, 0, 0)

Help_sides_always_d8(help_count) == 8

\* Help.execute, lines 429-434: the sides of the die rolled for the bonus
Help_sides(help_count) ==
    IF help_count = 0 THEN 8
    ELSE IF help_count = 1 THEN 6
    ELSE 4

\* random.randint(1, sides) sampled: the lowest and the highest face
Help_die(help_count) == {1, Help_sides(help_count)}

\* Help.execute(source, target) with the bonus rolled
Help_execute(st, source, target, bonus) ==
    IF ~CanPay(st.actor, source, Help_cost) THEN st
    ELSE LET A1 == [Pay(st.actor, source, Help_cost) EXCEPT ![source].help_count = @ + 1]
         IN [st EXCEPT !.actor = [A1 EXCEPT ![target].one_time_hit_bonus = @ + bonus]]

\* Modifier.decrease_duration: the modifier after the call
decrease_duration(m) ==
    IF m.timed THEN [m EXCEPT !.duration = @ - 1] ELSE m

\* Actor.update_modifiers: durations go down by one, expired modifiers are removed
update_modifiers(A, a) ==
    LET Kept(m) == ~(m.timed /\ m.duration <= 0)
    IN [A EXCEPT ![a].modifiers = SelectSeq(MapSeq(@, decrease_duration), Kept)]

new_round_keeps_help_count(A, a) ==
    LET A1 == [A EXCEPT ![a].action_points = max_action_points(a)]
        A2 == update_modifiers(A1, a)
    IN [A2 EXCEPT ![a].attack_count = 0,
                  ![a].advantage_count = 0]

\* Actor.new_round
new_round(A, a) ==
    LET A1 == [A EXCEPT ![a].action_points = max_action_points(a)]
        A2 == update_modifiers(A1, a)
    IN [A2 EXCEPT ![a].attack_count = 0,
                  ![a].advantage_count = 0,
                  ![a].help_count = 0]

\* Actor.full_rest
full_rest(A, a) ==
    [A EXCEPT ![a].health_points = max_health_points(a),
              ![a].stamina_points = max_stamina_points(a),
              ![a].mana_points = max_mana_points(a),
              ![a].action_points = max_action_points(a),
              ![a].attack_count = 0,
              ![a].advantage_count = 0,
              ![a].help_count = 0]

-----------------------------------------------------------------------------
(* Direct calls of InflictDamage on a target whose modifiers are drawn       *)
(* from a pool: the damage pipeline as a function of its inputs.             *)

NoAttack == [source |-> NONE]

NoCall == [op |-> NONE]

\* no Entity is under study
NoEntity == [name |-> NONE]

\* the actors and the logs, as the value the operations transform
Now == [actor |-> actor, damage_log |-> damage_log, attack_log |-> attack_log]

Commit(st) ==
    /\ actor' = st.actor
    /\ damage_log' = st.damage_log
    /\ attack_log' = st.attack_log

SeqsUpTo2(S) == {<<>>} \cup {<<x>> : x \in S} \cup {<<x, y>> : x \in S, y \in S}

ResistancePool ==
    {Resistance("Fire", 1, FALSE), Resistance("Physical", 2, FALSE),
     Resistance("Fire", 0, TRUE), Resistance("Psychic", 5, FALSE)}

VulnerabilityPool ==
    {Vulnerability("Fire", 1, FALSE), Vulnerability("Slashing", 2, TRUE),
     Vulnerability("Psychic", 3, TRUE)}

DefensePool ==
    {<<>>, <<DefenseModifier(0, 1, 0)>>, <<DefenseModifier(0, 0, 2)>>,
     <<DefenseModifier(1, 1, 0), DefenseModifier(0, 2, 1)>>}

DamageInputKinds == {"Physical", "Fire", "Slashing", "Mystical", "Psychic"}

DamageInputs ==
    LET Single == {Damage(t, v) : t \in DamageInputKinds, v \in 0..MaxDamageValue}
    IN {<<d>> : d \in Single} \cup {<<d, Damage("Psychic", 1)>> : d \in Single}

ManagerIdle ==
    /\ turn_order = <<>>
    /\ current_turn_index = 0
    /\ has_initiative = FALSE
    /\ rounds_count = 0
    /\ turns_count = 0
    /\ cur = NONE
    /\ round_i = 0
    /\ loop_parity = 0
    /\ result = NONE

InitDamage ==
    /\ \E res \in SeqsUpTo2(ResistancePool), vul \in SeqsUpTo2(VulnerabilityPool),
          def \in DefensePool :
          actor = [a \in Actors |->
                     IF a = "b1"
                     THEN [NewActor(a, "DefaultStrategy") EXCEPT !.modifiers = def \o res \o vul]
                     ELSE NewActor(a, "DefaultStrategy")]
    /\ ManagerIdle
    /\ pc = "direct"
    /\ attack_log = NoAttack
    /\ damage_log = <<>>
    /\ ops = 0
    /\ last_call = NoCall
    /\ round_turns = <<>>
    /\ rounds_started = 0
    /\ entity = NoEntity

\* InflictDamage(costs, damages).execute(source, targets)
InflictDamage(source, targets, cost, damages) ==
    /\ pc = "direct"
    /\ ops = 0
    /\ Commit(InflictDamage_execute(Now, source, targets, cost, damages))
    /\ ops' = ops + 1
    /\ UNCHANGED <<manager_vars, last_call, round_turns, rounds_started, entity>>

NextDamage ==
    \E cost \in {Cost(0, 0, 0), Cost(0, 1, 0)}, damages \in DamageInputs :
        InflictDamage("a1", <<"b1">>, cost, damages)

SpecDamage == InitDamage /\ [][NextDamage]_vars

-----------------------------------------------------------------------------
(* Direct calls of the actions on freshly constructed actors *)

InitActions ==
    /\ actor = [a \in Actors |-> NewActor(a, "DefaultStrategy")]
    /\ ManagerIdle
    /\ pc = "direct"
    /\ attack_log = NoAttack
    /\ damage_log = <<>>
    /\ ops = 0
    /\ last_call = NoCall
    /\ round_turns = <<>>
    /\ rounds_started = 0
    /\ entity = NoEntity

Called(st) ==
    /\ pc = "direct"
    /\ ops < MaxOps
    /\ Commit(st)
    /\ ops' = ops + 1
    /\ UNCHANGED <<manager_vars, last_call, round_turns, rounds_started, entity>>

\* GainAdvantage().execute(source)
GainAdvantage(source) == Called(GainAdvantage_execute(Now, source))

\* Attack().execute(source, target)
Attack(source, target) ==
    \E attack_roll \in Attack_rolls(actor, source, target),
       bonus_to_hit \in get_bonus_roll(source) :
        Called(Attack_execute(Now, source, target, attack_roll, bonus_to_hit))

\* Dodge().execute(source)
Dodge(source) == Called(Dodge_execute(Now, source, NONE))

\* Full_Dodge().execute(source)
Full_Dodge(source) == Called(Full_Dodge_execute(Now, source, NONE))

\* Help().execute(source, target)
Help(source, target) ==
    \E bonus \in Help_die(actor[source].help_count) :
        Called(Help_execute(Now, source, target, bonus))

\* actor.new_round()
NewRound(a) == Called([Now EXCEPT !.actor = new_round(actor, a)])

NextActions ==
    \/ \E source \in Actors : GainAdvantage(source)
    \/ \E source \in Actors : \E target \in Actors \ {source} : Attack(source, target)
    \/ \E source \in Actors : Dodge(source)
    \/ \E source \in Actors : Full_Dodge(source)
    \/ \E source \in Actors : \E target \in Actors \ {source} : Help(source, target)
    \/ \E a \in Actors : NewRound(a)

SpecActions == InitActions /\ [][NextActions]_vars

-----------------------------------------------------------------------------
(* actors.py: targeting *)

\* min(candidates, key=health_points): the first candidate of least health
first_weakest(A, candidates) ==
    LET least == MinOfSet({A[candidates[i]].health_points : i \in 1..Len(candidates)})
        i0 == MinOfSet({i \in 1..Len(candidates) : A[candidates[i]].health_points = least})
    IN candidates[i0]

\* max(candidates, key=health_points): the first candidate of most health
first_strongest(A, candidates) ==
    LET most == MaxOfSet({A[candidates[i]].health_points : i \in 1..Len(candidates)})
        i0 == MinOfSet({i \in 1..Len(candidates) : A[candidates[i]].health_points = most})
    IN candidates[i0]

\* Actor.select_target; pick is the draw of random.randint
select_target(A, self, candidates, pick) ==
    IF candidates = <<>> THEN NONE
    ELSE IF A[self].target_mode = "target_weakest" THEN first_weakest(A, candidates)
    ELSE IF A[self].target_mode = "target_strongest" THEN first_strongest(A, candidates)
    ELSE IF A[self].target_mode = "random" THEN candidates[(pick % Len(candidates)) + 1]
    ELSE first_weakest(A, candidates)

\* Actor.update_targeting(team_allies, team_enemies)
update_targeting(A, self, team_allies, team_enemies, pick) ==
    LET \* lines 175-176
        A1 == IF A[self].current_target \in Range(team_allies)
              THEN [A EXCEPT ![self].current_target = NONE]
              ELSE A
        t1 == A1[self].current_target
        \* lines 179-182
        A2 == IF t1 # NONE /\ A1[t1].health_points <= 0
              THEN [[A1 EXCEPT ![t1].targeting_enemies = RemoveFirst(@, self)]
                        EXCEPT ![self].current_target = NONE]
              ELSE A1
        Alive(e) == A2[e].health_points > 0
        alive_enemies == SelectSeq(team_enemies, Alive)
        TargetsMe(e) == A2[e].current_target = self /\ is_alive(A2, e)
        enemies_targeting_me == SelectSeq(A2[self].targeting_enemies, TargetsMe)
        alive_allies == SelectSeq(team_allies, Alive)
        weakest_ally == IF alive_allies = <<>> THEN NONE ELSE first_weakest(A2, alive_allies)
        follows_ally ==
            /\ A2[self].target_mode = "help_ally"
            /\ weakest_ally # NONE
            /\ A2[weakest_ally].current_target # NONE
            /\ A2[A2[weakest_ally].current_target].health_points > 0
        target == IF enemies_targeting_me # <<>>
                  THEN select_target(A2, self, enemies_targeting_me, pick)
                  ELSE IF follows_ally THEN A2[weakest_ally].current_target
                  ELSE select_target(A2, self, alive_enemies, pick)
        A3 == [A2 EXCEPT ![self].current_target = target]
    IN IF target # NONE
       THEN [A3 EXCEPT ![target].targeting_enemies = Append(@, self)]
       ELSE A3

-----------------------------------------------------------------------------
(* combat_strategies.py *)

Strategies == {"FullAttackStrategy", "DefaultStrategy", "DefaultDodgeStrategy",
               "HelpAllyStrategy"}

\* the tail shared by DefaultStrategy, DefaultDodgeStrategy and HelpAllyStrategy
attack_or_gain_advantage(A, self) ==
    IF A[self].attack_count = 0 \/ A[self].action_points = 1 THEN "Attack"
    ELSE IF A[self].advantage_count >= A[self].attack_count THEN "Attack"
    ELSE "GainAdvantage"

is_ally_nearby(A, self, ally, enemies) ==
    \/ A[ally].current_target = A[self].current_target
    \/ A[ally].current_target \in Range(enemies)
    \/ \E i \in 1..Len(enemies) :
          A[enemies[i]].current_target = self \/ A[ally].current_target = enemies[i]

\* HelpAllyStrategy.choose_action, lines 110-116
unhelped_nearby_allies(A, self, allies, enemies) ==
    LET Eligible(ally) ==
            /\ ally # self
            /\ A[ally].help_count = 0
            /\ is_ally_nearby(A, self, ally, enemies)
    IN SelectSeq(allies, Eligible)

\* strategy.choose_action(actor, allies, enemies): the action chosen and the
\* actors after the call (HelpAllyStrategy sets the actor's current target);
\* pick is the draw of random.choice
choose_action(A, self, allies, enemies, pick) ==
    LET strategy == A[self].strategy
        unhelped == unhelped_nearby_allies(A, self, allies, enemies)
    IN CASE strategy = "FullAttackStrategy" ->
                [action |-> "Attack", actor |-> A]
         [] strategy = "DefaultStrategy" ->
                [action |-> attack_or_gain_advantage(A, self), actor |-> A]
         [] strategy = "DefaultDodgeStrategy" ->
                IF A[self].targeting_enemies # <<>> /\ ~A[self].is_full_dodging
                THEN [action |-> "Full_Dodge", actor |-> A]
                ELSE [action |-> attack_or_gain_advantage(A, self), actor |-> A]
         [] strategy = "HelpAllyStrategy" ->
                IF A[self].action_points = max_action_points(self) /\ unhelped # <<>>
                THEN [action |-> "Help",
                      actor |-> [A EXCEPT ![self].current_target =
                                     unhelped[(pick % Len(unhelped)) + 1]]]
                ELSE [action |-> attack_or_gain_advantage(A, self), actor |-> A]

-----------------------------------------------------------------------------
(* combat.py: CombatManager *)

\* the faces Actor.roll_initiative shows in the model
InitiativeFaces == {5, 15}

\* list.sort(key=roll, reverse=True): highest roll first, ties in list order
RECURSIVE sorted_by_initiative(_, _)
sorted_by_initiative(team, rolls) ==
    IF team = <<>> THEN <<>>
    ELSE LET n == Len(team)
             before == sorted_by_initiative(SubSeq(team, 1, n - 1), rolls)
             k == Cardinality({i \in 1..Len(before) : rolls[before[i]] >= rolls[team[n]]})
         IN SubSeq(before, 1, k) \o <<team[n]>> \o SubSeq(before, k + 1, Len(before))

determine_turn_order_teams_appended(team_a_initiatives, team_b_initiatives, monsters_win) ==
    team_a_initiatives \o team_b_initiatives

RECURSIVE determine_turn_order_alternating_only(_, _, _)
determine_turn_order_alternating_only(team_a_initiatives, team_b_initiatives, monsters_win) ==
    IF team_a_initiatives = <<>> \/ team_b_initiatives = <<>>
    THEN <<>>
    ELSE IF monsters_win
    THEN <<Head(team_b_initiatives)>>
           \o determine_turn_order_alternating_only(team_a_initiatives,
                                                    Tail(team_b_initiatives), FALSE)
    ELSE <<Head(team_a_initiatives)>>
           \o determine_turn_order_alternating_only(Tail(team_a_initiatives),
                                                    team_b_initiatives, TRUE)

\* CombatManager.determine_turn_order on the two sorted teams
RECURSIVE determine_turn_order(_, _, _)
determine_turn_order(team_a_initiatives, team_b_initiatives, monsters_win) ==
    IF team_a_initiatives = <<>> \/ team_b_initiatives = <<>>
    THEN team_a_initiatives \o team_b_initiatives
    ELSE IF monsters_win
    THEN <<Head(team_b_initiatives)>>
           \o determine_turn_order(team_a_initiatives, Tail(team_b_initiatives), FALSE)
    ELSE <<Head(team_a_initiatives)>>
           \o determine_turn_order(Tail(team_a_initiatives), team_b_initiatives, TRUE)

\* CombatManager.roll_initiative: the turn order the rolls give
roll_initiative(rolls) ==
    LET team_a_initiatives == sorted_by_initiative(team_a, rolls)
        team_b_initiatives == sorted_by_initiative(team_b, rolls)
        highest_player_initiative ==
            IF team_a_initiatives = <<>> THEN 0 ELSE rolls[team_a_initiatives[1]]
    IN determine_turn_order(team_a_initiatives, team_b_initiatives,
                            ~(highest_player_initiative >= initiative_dc))

\* CombatManager.get_allies_enemies
allies_of(a) == IF a \in Range(team_a) THEN team_a ELSE team_b

enemies_of(a) == IF a \in Range(team_a) THEN team_b ELSE team_a

\* CombatManager.update_targeting
manager_update_targeting(A, a, pick) ==
    update_targeting(A, a, allies_of(a), enemies_of(a), pick)

\* any(actor.health_points > 0 for actor in team)
any_alive(A, team) == \E i \in 1..Len(team) : A[team[i]].health_points > 0

is_combat_over_when_all_dead(A) == ~(any_alive(A, team_a) \/ any_alive(A, team_b))

\* CombatManager.is_combat_over
is_combat_over(A) == ~(any_alive(A, team_a) /\ any_alive(A, team_b))

next_turn_actor_no_skip(A, order, index, rounds, pick) ==
    IF Len(order) <= 1
    THEN [current_actor |-> NONE, actor |-> A, index |-> index, rounds |-> rounds]
    ELSE [current_actor |-> order[index + 1],
          actor |-> manager_update_targeting(A, order[index + 1], pick),
          index |-> (index + 1) % Len(order),
          rounds |-> IF (index + 1) % Len(order) = 0 THEN rounds + 1 ELSE rounds]

\* CombatManager.next_turn_actor: the actor returned, and the manager's index and
\* round counter and the actors after the call
RECURSIVE next_turn_actor(_, _, _, _, _)
next_turn_actor(A, order, index, rounds, pick) ==
    IF Len(order) <= 1
    THEN [current_actor |-> NONE, actor |-> A, index |-> index, rounds |-> rounds]
    ELSE LET current_actor == order[index + 1]
             index1 == (index + 1) % Len(order)
             rounds1 == IF index1 = 0 THEN rounds + 1 ELSE rounds
         IN IF is_alive(A, current_actor)
            THEN [current_actor |-> current_actor,
                  actor |-> manager_update_targeting(A, current_actor, pick),
                  index |-> index1, rounds |-> rounds1]
            ELSE IF \A i \in 1..Len(order) : ~is_alive(A, order[i])
            THEN [current_actor |-> NONE, actor |-> A, index |-> index1, rounds |-> rounds1]
            ELSE next_turn_actor(A, order, index1, rounds1, pick)

new_round_all_first_only(A, order) ==
    IF order = <<>> THEN A ELSE new_round(A, Head(order))

\* run_round, lines 186-187: new_round for every actor of the turn order
RECURSIVE new_round_all(_, _)
new_round_all(A, order) ==
    IF order = <<>> THEN A ELSE new_round_all(new_round(A, Head(order)), Tail(order))

\* execute_turn, lines 237-240
execute_turn_enter(A, self, pick) ==
    IF A[self].current_target = NONE THEN manager_update_targeting(A, self, pick)
    ELSE IF A[A[self].current_target].health_points <= 0
    THEN manager_update_targeting(A, self, pick)
    ELSE A

\* execute_turn, lines 242-246: the loop test reads the health of no target
turn_loop_crashes(A, self) ==
    A[self].action_points > 0 /\ A[self].current_target = NONE

turn_loop_continues(A, self) ==
    /\ A[self].action_points > 0
    /\ A[self].current_target # NONE
    /\ A[A[self].current_target].health_points > 0
    /\ ~is_combat_over(A)

\* execute_turn, lines 253-259: the action is executed if it is one of the three
\* kinds the loop dispatches; the set holds one state per outcome of the dice
dispatch(st, self, action) ==
    LET target == st.actor[self].current_target
    IN CASE action = "GainAdvantage" -> {GainAdvantage_execute(st, self)}
         [] action = "Attack" ->
              {Attack_execute(st, self, target, attack_roll, bonus_to_hit) :
                  attack_roll \in Attack_rolls(st.actor, self, target),
                  bonus_to_hit \in get_bonus_roll(self)}
         [] action = "Help" ->
              {Help_execute(st, self, target, bonus) :
                  bonus \in Help_die(st.actor[self].help_count)}
         [] OTHER -> {st}

\* execute_turn, lines 247-263: one pass through the body of the loop; crashed
\* tells that the pass dereferenced a target that is None
execute_turn_body(st, self, picks) ==
    LET allies == allies_of(self)
        enemies == enemies_of(self)
        A1 == IF st.actor[self].current_target \in Range(allies)
              THEN manager_update_targeting(st.actor, self, picks[1])
              ELSE st.actor
        chosen == choose_action(A1, self, allies, enemies, picks[2])
        st2 == [st EXCEPT !.actor = chosen.actor]
        Reselect(o) ==
            IF o.actor[o.actor[self].current_target].health_points <= 0
            THEN [o EXCEPT !.actor = manager_update_targeting(o.actor, self, picks[3])]
            ELSE o
    IN IF chosen.actor[self].current_target = NONE
       THEN {[crashed |-> TRUE,
              st |-> IF chosen.action = "GainAdvantage"
                     THEN GainAdvantage_execute(st2, self) ELSE st2]}
       ELSE {[crashed |-> FALSE, st |-> Reselect(o)] : o \in dispatch(st2, self, chosen.action)}

winning_team_by_team_b(A) == IF any_alive(A, team_b) THEN "A" ELSE "B"

\* run_combat, line 218
winning_team(A) == IF any_alive(A, team_a) THEN "A" ELSE "B"

round_never_breaks(A) == FALSE

\* run_round, lines 195-196
round_breaks(A) == is_combat_over(A)

-----------------------------------------------------------------------------
(* run_combat as a state machine: one fight of team_a against team_b *)

\* the strategies each actor is fielded with: every strategy plays on each side
Lineups ==
    {lineup \in [Actors -> Strategies] :
        /\ lineup["a1"] # "HelpAllyStrategy"
        /\ lineup["a2"] \in {"HelpAllyStrategy", "DefaultStrategy"}
        /\ lineup["b1"] \in {"FullAttackStrategy", "DefaultDodgeStrategy"}}

\* the draws of random.randint / random.choice one step may need
Picks(A, a) ==
    IF a # NONE /\ (A[a].target_mode = "random" \/ A[a].strategy = "HelpAllyStrategy")
    THEN [1..3 -> 0..1]
    ELSE {[i \in 1..3 |-> 0]}

Init ==
    /\ \E lineup \in Lineups : actor = [a \in Actors |-> NewActor(a, lineup[a])]
    /\ ManagerIdle
    /\ pc = "idle"
    /\ attack_log = NoAttack
    /\ damage_log = <<>>
    /\ ops = 0
    /\ last_call = NoCall
    /\ round_turns = <<>>
    /\ rounds_started = 0
    /\ entity = NoEntity

\* run_combat, lines 208-209
RunCombat ==
    /\ pc = "idle"
    /\ IF ~has_initiative
       THEN \E rolls \in [Actors -> InitiativeFaces] :
               /\ turn_order' = roll_initiative(rolls)
               /\ has_initiative' = TRUE
       ELSE UNCHANGED <<turn_order, has_initiative>>
    /\ pc' = "while"
    /\ UNCHANGED <<actor, current_turn_index, rounds_count, turns_count, cur, round_i,
                   loop_parity, result, attack_log, damage_log, ops,
                   last_call, round_turns, rounds_started, entity>>

\* run_combat, lines 211 and 215-225: the loop test fails and run_combat returns
CombatReturn ==
    /\ pc = "while"
    /\ is_combat_over(actor)
    /\ result' = [num_rounds |-> rounds_count, num_turns |-> turns_count,
                  winning_team |-> winning_team(actor),
                  remaining_hp |-> [a \in Actors |-> actor[a].health_points]]
    /\ pc' = "done"
    /\ UNCHANGED <<actor, turn_order, current_turn_index, has_initiative, rounds_count,
                   turns_count, cur, round_i, loop_parity, attack_log, damage_log, ops,
                   last_call, round_turns, rounds_started, entity>>

\* run_combat, line 213, and run_round, lines 184-187
RunRound ==
    /\ pc = "while"
    /\ ~is_combat_over(actor)
    /\ rounds_count < MaxRounds
    /\ rounds_count' = rounds_count + 1
    /\ actor' = new_round_all(actor, turn_order)
    /\ round_i' = 0
    /\ round_turns' = <<>>
    /\ rounds_started' = rounds_started + 1
    /\ pc' = "for"
    /\ UNCHANGED <<turn_order, current_turn_index, has_initiative, turns_count, cur,
                   loop_parity, result, attack_log, damage_log, ops,
                   last_call, entity>>

\* the fight is followed until rounds_count reaches MaxRounds
CutOff ==
    /\ pc = "while"
    /\ ~is_combat_over(actor)
    /\ rounds_count >= MaxRounds
    /\ pc' = "cutoff"
    /\ UNCHANGED <<actor, turn_order, current_turn_index, has_initiative, rounds_count,
                   turns_count, cur, round_i, loop_parity, result, attack_log,
                   damage_log, ops,
                   last_call, round_turns, rounds_started, entity>>

\* run_round, lines 189-196: one pass of the for loop up to the entry of the
\* loop of execute_turn
RoundStep ==
    /\ pc = "for"
    /\ round_i < Len(turn_order)
    /\ LET who == next_turn_actor(actor, turn_order, current_turn_index,
                                  rounds_count, 0).current_actor
       IN \E picks \in Picks(actor, who) :
            LET nt == next_turn_actor(actor, turn_order, current_turn_index,
                                      rounds_count, picks[1])
            IN /\ current_turn_index' = nt.index
               /\ rounds_count' = nt.rounds
               /\ IF nt.current_actor # NONE
                  THEN /\ actor' = execute_turn_enter(nt.actor, nt.current_actor, picks[2])
                       /\ cur' = nt.current_actor
                       /\ round_turns' = Append(round_turns, nt.current_actor)
                       /\ pc' = "turn"
                       /\ UNCHANGED round_i
                  ELSE /\ actor' = nt.actor
                       /\ UNCHANGED <<cur, round_turns>>
                       /\ IF round_breaks(nt.actor)
                          THEN pc' = "while" /\ UNCHANGED round_i
                          ELSE pc' = "for" /\ round_i' = round_i + 1
    /\ loop_parity' = 0
    /\ UNCHANGED <<turn_order, has_initiative, turns_count, result, attack_log,
                   damage_log, ops,
                   last_call, rounds_started, entity>>

\* run_round, line 189: the for loop is exhausted and run_round returns
RoundEnd ==
    /\ pc = "for"
    /\ round_i >= Len(turn_order)
    /\ pc' = "while"
    /\ UNCHANGED <<actor, turn_order, current_turn_index, has_initiative, rounds_count,
                   turns_count, cur, round_i, loop_parity, result, attack_log,
                   damage_log, ops,
                   last_call, round_turns, rounds_started, entity>>

\* run_round, lines 194-196, once execute_turn has returned with the actors A
TurnReturned(A) ==
    /\ turns_count' = turns_count + 1
    /\ loop_parity' = 0
    /\ IF round_breaks(A)
       THEN pc' = "while" /\ UNCHANGED round_i
       ELSE pc' = "for" /\ round_i' = round_i + 1

\* execute_turn, lines 242-266: the loop test holds and the body runs once
TurnIteration ==
    /\ pc = "turn"
    /\ turn_loop_continues(actor, cur)
    /\ \E picks \in Picks(actor, cur) : \E o \in execute_turn_body(Now, cur, picks) :
          /\ Commit(o.st)
          /\ IF o.crashed
             THEN pc' = "crashed" /\ UNCHANGED <<turns_count, round_i, loop_parity>>
             ELSE IF is_combat_over(o.st.actor)
             THEN TurnReturned(o.st.actor)
             ELSE /\ pc' = "turn"
                  /\ loop_parity' = 1 - loop_parity
                  /\ UNCHANGED <<turns_count, round_i>>
    /\ UNCHANGED <<turn_order, current_turn_index, has_initiative, rounds_count, cur,
                   result, ops,
                   last_call, round_turns, rounds_started, entity>>

\* execute_turn, lines 242-246: the loop test fails, or raises on a target
\* that is None, and execute_turn is left
TurnReturn ==
    /\ pc = "turn"
    /\ ~turn_loop_continues(actor, cur)
    /\ IF turn_loop_crashes(actor, cur)
       THEN pc' = "crashed" /\ UNCHANGED <<turns_count, round_i, loop_parity>>
       ELSE TurnReturned(actor)
    /\ UNCHANGED <<actor, turn_order, current_turn_index, has_initiative, rounds_count,
                   cur, result, attack_log, damage_log, ops,
                   last_call, round_turns, rounds_started, entity>>

Next ==
    \/ RunCombat
    \/ RunRound
    \/ RoundStep
    \/ RoundEnd
    \/ TurnIteration
    \/ TurnReturn
    \/ CombatReturn
    \/ CutOff

Spec == Init /\ [][Next]_vars

\* the loop of execute_turn has another pass to make: what enables TurnIteration,
\* which is then the one action that is enabled
TurnIterationEnabled == pc = "turn" /\ turn_loop_continues(actor, cur)

\* run_combat is a sequential program: it takes its next step whenever it has
\* one.  The weak fairness of TurnIteration is written out, as its enabling
\* condition failing infinitely often or a step being taken under it infinitely often.
SpecFair ==
    /\ Spec
    /\ WF_vars(RunCombat)
    /\ WF_vars(RunRound)
    /\ WF_vars(RoundStep)
    /\ WF_vars(RoundEnd)
    /\ WF_vars(TurnReturn)
    /\ WF_vars(CombatReturn)
    /\ WF_vars(CutOff)
    /\ ([]<>(~TurnIterationEnabled) \/ []<><<TurnIterationEnabled>>_vars)

-----------------------------------------------------------------------------
(* run_combat on actors one of which has executed Full_Dodge before the fight *)

InitDodging ==
    /\ \E lineup \in Lineups : \E dodger \in Actors :
          LET constructed == [actor |-> [a \in Actors |-> NewActor(a, lineup[a])],
                              damage_log |-> <<>>, attack_log |-> NoAttack]
          IN actor = Full_Dodge_execute(constructed, dodger, NONE).actor
    /\ ManagerIdle
    /\ pc = "idle"
    /\ attack_log = NoAttack
    /\ damage_log = <<>>
    /\ ops = 0
    /\ last_call = NoCall
    /\ round_turns = <<>>
    /\ rounds_started = 0
    /\ entity = NoEntity

SpecDodging == InitDodging /\ [][Next]_vars

-----------------------------------------------------------------------------
(* actions.py and targeting_strategies.py: the targeting actions and the     *)
(* targeting strategies that execute them                                    *)

Target_cost == Cost(0, 0, 0)

\* Target.execute(source, target): a target of None is replaced by the source
Target_execute(st, source, target) ==
    LET tgt == IF target = NONE THEN source ELSE target
    IN IF ~CanPay(st.actor, source, Target_cost) THEN st
       ELSE [st EXCEPT !.actor = [Pay(st.actor, source, Target_cost)
                                     EXCEPT ![source].current_target = tgt]]

MoveToTarget_cost == Cost(1, 0, 0)

\* MoveToTarget.execute(source, target)
MoveToTarget_execute(st, source, target) ==
    LET tgt == IF target = NONE THEN source ELSE target
    IN IF ~CanPay(st.actor, source, MoveToTarget_cost) THEN st
       ELSE [st EXCEPT !.actor = [Pay(st.actor, source, MoveToTarget_cost)
                                     EXCEPT ![source].current_target = tgt]]

TargetingStrategies ==
    {"TargetWeakestStrategy", "TargetHealthiestStrategy", "RandomTargetStrategy"}

\* TargetingStrategy.select_target(actor, allies, enemies): the state after the
\* call, and whether the call raised (min() and max() of an empty list raise
\* ValueError); pick is the draw of random.choice
strategy_select_target(st, strategy, self, enemies, pick) ==
    LET A == st.actor
        current == A[self].current_target
        TargetsMe(e) == A[e].current_target = self
        favoured == SelectSeq(enemies, TargetsMe)
        preferred == IF current \in Range(enemies) /\ is_alive(A, current)
                     THEN Append(favoured, current)
                     ELSE favoured
        candidates == IF preferred = <<>> THEN enemies ELSE preferred
        Perform(target) ==
            IF target = current THEN st
            ELSE IF preferred = <<>> THEN MoveToTarget_execute(st, self, target)
            ELSE Target_execute(st, self, target)
    IN CASE strategy = "RandomTargetStrategy" ->
              [raised |-> FALSE,
               st |-> Perform(IF candidates # <<>>
                              THEN candidates[(pick % Len(candidates)) + 1]
                              ELSE NONE)]
         [] strategy = "TargetWeakestStrategy" ->
              IF candidates = <<>> THEN [raised |-> TRUE, st |-> st]
              ELSE [raised |-> FALSE, st |-> Perform(first_weakest(A, candidates))]
         [] strategy = "TargetHealthiestStrategy" ->
              IF candidates = <<>> THEN [raised |-> TRUE, st |-> st]
              ELSE [raised |-> FALSE, st |-> Perform(first_strongest(A, candidates))]

\* CombatManager.reset_combat: the actors after the call.  current_target is set
\* to an empty list, which every reader of the field treats as it treats None
reset_combat(A) ==
    [a \in Actors |-> [full_rest(A, a)[a] EXCEPT !.current_target = NONE,
                                                 !.targeting_enemies = <<>>]]

-----------------------------------------------------------------------------
(* Direct calls of every action, of the round reset, of the targeting and of   *)
(* reset_combat, each call recorded with its arguments                         *)

ActionKinds == {"GainAdvantage", "Attack", "Dodge", "Full_Dodge", "Help",
                "InflictDamage", "Target", "MoveToTarget"}

\* the costs the action objects are constructed with
ActionCosts(action) ==
    CASE action = "GainAdvantage" -> {GainAdvantage_cost}
      [] action = "Attack" -> {Attack_cost}
      [] action = "Dodge" -> {Dodge_cost}
      [] action = "Full_Dodge" -> {Full_Dodge_cost}
      [] action = "Help" -> {Help_cost}
      [] action = "InflictDamage" -> {Cost(1, 1, 0), Cost(1, 0, 1), Cost(0, 0, 0)}
      [] action = "Target" -> {Target_cost}
      [] action = "MoveToTarget" -> {MoveToTarget_cost}

\* action.execute(source, target): one state per outcome of the dice
execute(st, action, cost, source, target) ==
    CASE action = "GainAdvantage" -> {GainAdvantage_execute(st, source)}
      [] action = "Attack" ->
           {Attack_execute(st, source, target, attack_roll, bonus_to_hit) :
               attack_roll \in Attack_rolls(st.actor, source, target),
               bonus_to_hit \in get_bonus_roll(source)}
      [] action = "Dodge" -> {Dodge_execute(st, source, NONE)}
      [] action = "Full_Dodge" -> {Full_Dodge_execute(st, source, NONE)}
      [] action = "Help" ->
           {Help_execute(st, source, target, bonus) :
               bonus \in Help_die(st.actor[source].help_count)}
      [] action = "InflictDamage" ->
           {InflictDamage_execute(st, source, <<target>>, cost,
                                  <<Damage("Fire", 2), Damage("Psychic", 1)>>)}
      [] action = "Target" -> {Target_execute(st, source, target)}
      [] action = "MoveToTarget" -> {MoveToTarget_execute(st, source, target)}

InitCalls ==
    /\ actor = [a \in Actors |-> NewActor(a, "DefaultStrategy")]
    /\ ManagerIdle
    /\ pc = "direct"
    /\ attack_log = NoAttack
    /\ damage_log = <<>>
    /\ ops = 0
    /\ last_call = NoCall
    /\ round_turns = <<>>
    /\ rounds_started = 0
    /\ entity = NoEntity

Recorded(call, st) ==
    /\ pc = "direct"
    /\ ops < MaxOps
    /\ Commit(st)
    /\ ops' = ops + 1
    /\ last_call' = call
    /\ UNCHANGED <<manager_vars, round_turns, rounds_started, entity>>

\* action.execute(source, target)
Execute(action, source, target) ==
    /\ ops < MaxOps
    /\ \E cost \in ActionCosts(action) :
          \E o \in execute(Now, action, cost, source, target) :
             Recorded([op |-> action, source |-> source, target |-> target,
                       cost |-> cost], o)

\* actor.new_round()
CallNewRound(a) ==
    /\ ops < MaxOps
    /\ Recorded([op |-> "new_round", source |-> a],
                [Now EXCEPT !.actor = new_round(actor, a)])

\* combat_manager.update_targeting(actor)
CallUpdateTargeting(a) ==
    /\ ops < MaxOps
    /\ \E pick \in IF actor[a].target_mode = "random" THEN 0..1 ELSE {0} :
          Recorded([op |-> "update_targeting", source |-> a],
                   [Now EXCEPT !.actor = manager_update_targeting(actor, a, pick)])

\* strategy.select_target(actor, allies, enemies) with the enemies that are alive
CallSelectTarget(strategy, self) ==
    /\ ops < MaxOps
    /\ LET Alive(e) == is_alive(actor, e)
           enemies == SelectSeq(enemies_of(self), Alive)
       IN \E pick \in IF strategy = "RandomTargetStrategy" THEN 0..1 ELSE {0} :
           LET o == strategy_select_target(Now, strategy, self, enemies, pick)
           IN Recorded([op |-> "select_target", source |-> self, strategy |-> strategy,
                        enemies |-> enemies, raised |-> o.raised], o.st)

\* combat_manager.reset_combat()
CallResetCombat ==
    /\ pc = "direct"
    /\ ops < MaxOps
    /\ actor' = reset_combat(actor)
    /\ has_initiative' = FALSE
    /\ current_turn_index' = 0
    /\ turns_count' = 0
    /\ rounds_count' = 0
    /\ ops' = ops + 1
    /\ last_call' = [op |-> "reset_combat"]
    /\ UNCHANGED <<turn_order, pc, cur, round_i, loop_parity, result, attack_log, damage_log,
                   round_turns, rounds_started, entity>>

NextCalls ==
    \/ \E action \in ActionKinds : \E source \in Actors : \E target \in Actors \ {source} :
          Execute(action, source, target)
    \/ \E a \in Actors : CallNewRound(a)
    \/ \E a \in Actors : CallUpdateTargeting(a)
    \/ \E strategy \in TargetingStrategies : \E self \in Actors :
          CallSelectTarget(strategy, self)
    \/ CallResetCombat

SpecCalls == InitCalls /\ [][NextCalls]_vars

-----------------------------------------------------------------------------
(* Direct calls of roll_initiative and next_turn_actor on a manager whose      *)
(* actors have taken damage                                                    *)

\* the health an actor is left with: below 0, at 0, or untouched
HealthDraws ==
    {h \in [Actors -> -1..4] : \A a \in Actors : h[a] \in {-1, 0, max_health_points(a)}}

InitManager ==
    /\ \E h \in HealthDraws :
          actor = [a \in Actors |->
                     [NewActor(a, "DefaultStrategy") EXCEPT !.health_points = h[a]]]
    /\ ManagerIdle
    /\ pc = "direct"
    /\ attack_log = NoAttack
    /\ damage_log = <<>>
    /\ ops = 0
    /\ last_call = NoCall
    /\ round_turns = <<>>
    /\ rounds_started = 0
    /\ entity = NoEntity

\* combat_manager.roll_initiative()
RollInitiative ==
    /\ pc = "direct"
    /\ ops < MaxOps
    /\ \E rolls \in [Actors -> InitiativeFaces] :
          /\ turn_order' = roll_initiative(rolls)
          /\ last_call' = [op |-> "roll_initiative", rolls |-> rolls]
    /\ has_initiative' = TRUE
    /\ ops' = ops + 1
    /\ UNCHANGED <<actor, current_turn_index, rounds_count, turns_count, pc, cur, round_i,
                   loop_parity, result, attack_log, damage_log, round_turns, rounds_started, entity>>

\* combat_manager.next_turn_actor(); cur holds the actor returned
NextTurnActor ==
    /\ pc = "direct"
    /\ ops < MaxOps
    /\ \E pick \in 0..1 :
          LET nt == next_turn_actor(actor, turn_order, current_turn_index,
                                    rounds_count, pick)
          IN /\ actor' = nt.actor
             /\ current_turn_index' = nt.index
             /\ rounds_count' = nt.rounds
             /\ cur' = nt.current_actor
    /\ last_call' = [op |-> "next_turn_actor", index |-> current_turn_index]
    /\ ops' = ops + 1
    /\ UNCHANGED <<turn_order, has_initiative, turns_count, pc, round_i, loop_parity,
                   result, attack_log, damage_log, round_turns, rounds_started, entity>>

NextManager ==
    \/ RollInitiative
    \/ NextTurnActor

SpecManager == InitManager /\ [][NextManager]_vars

-----------------------------------------------------------------------------
(* Direct calls of update_targeting on actors of every target mode, some of    *)
(* which have taken damage                                                     *)

TargetModes == {"target_weakest", "target_strongest", "random", "help_ally"}

\* the target mode each actor is constructed with
ModeDraws ==
    {m \in [Actors -> TargetModes] :
        /\ m["a1"] \in {"target_weakest", "target_strongest"}
        /\ m["a2"] \in {"help_ally", "random"}}

\* the health an actor is left with: one point, or untouched
WoundDraws ==
    {h \in [Actors -> 1..4] : \A a \in Actors : h[a] \in {1, max_health_points(a)}}

\* the strategy each actor is constructed with
StrategyDraws ==
    {lineup \in [Actors -> Strategies] :
        /\ lineup["a1"] \in {"HelpAllyStrategy", "DefaultStrategy"}
        /\ lineup["a2"] = "DefaultStrategy"
        /\ lineup["b1"] = "DefaultStrategy"}

InitTargeting ==
    /\ \E m \in ModeDraws : \E h \in WoundDraws : \E lineup \in StrategyDraws :
          actor = [a \in Actors |->
                     [NewActor(a, lineup[a]) EXCEPT !.target_mode = m[a],
                                                    !.health_points = h[a]]]
    /\ ManagerIdle
    /\ pc = "direct"
    /\ attack_log = NoAttack
    /\ damage_log = <<>>
    /\ ops = 0
    /\ last_call = NoCall
    /\ round_turns = <<>>
    /\ rounds_started = 0
    /\ entity = NoEntity

\* InflictDamage.execute(source, [target]) of an action that costs nothing, by the
\* first enemy of the target
Wound(target) ==
    /\ ops < MaxOps
    /\ LET source == enemies_of(target)[1]
           cost == Cost(0, 0, 0)
       IN \E o \in execute(Now, "InflictDamage", cost, source, target) :
             Recorded([op |-> "InflictDamage", source |-> source, target |-> target,
                       cost |-> cost], o)

\* actor.strategy.choose_action(actor, allies, enemies), as execute_turn calls it
CallChooseAction(self) ==
    /\ ops < MaxOps
    /\ \E pick \in IF actor[self].strategy = "HelpAllyStrategy" THEN 0..1 ELSE {0} :
          LET chosen == choose_action(actor, self, allies_of(self), enemies_of(self), pick)
          IN Recorded([op |-> "choose_action", source |-> self, action |-> chosen.action],
                      [Now EXCEPT !.actor = chosen.actor])

NextTargeting ==
    \/ \E a \in Actors : CallUpdateTargeting(a)
    \/ \E a \in Actors : CallChooseAction(a)
    \/ \E target \in Actors : Wound(target)

SpecTargeting == InitTargeting /\ [][NextTargeting]_vars

-----------------------------------------------------------------------------
(* attributes.py and entity.py: the attribute bundles of an Entity and their   *)
(* aggregation                                                                 *)

\* dataclass fields of Attributes annotated int (three of them stand for all)
IntFields == {"physical_defense", "max_health_points", "critical_hit_threshold"}

\* dataclass fields of Attributes annotated bool
BoolFields == {"is_magic", "is_exposed"}

\* attributes.py, lines 16 and 60: class attributes without annotation, which
\* dataclasses.fields() does not list
ClassAttributes == {"true_damage_on_new_turn"}

AttributeNames == IntFields \cup BoolFields \cup ClassAttributes

\* Attributes(): every field at its default
Attributes_default == [f \in AttributeNames |-> IF f \in BoolFields THEN FALSE ELSE 0]

Attributes_add_left_wins(self, other) ==
    [f \in AttributeNames |->
        IF f \in BoolFields THEN self[f] \/ other[f]
        ELSE IF f \in IntFields THEN (IF self[f] # 0 THEN self[f] ELSE other[f])
        ELSE Attributes_default[f]]

\* Attributes.__add__: a new bundle; the loop runs over fields(self), so a class
\* attribute stays at the default of the new bundle
Attributes_add(self, other) ==
    [f \in AttributeNames |->
        IF f \in BoolFields THEN self[f] \/ other[f]
        ELSE IF f \in IntFields THEN self[f] + other[f]
        ELSE Attributes_default[f]]

\* the bundles an Entity is constructed with
BaseAttributesPool ==
    {Attributes_default,
     [Attributes_default EXCEPT !["physical_defense"] = 8, !["max_health_points"] = 10,
                                !["critical_hit_threshold"] = 20],
     [Attributes_default EXCEPT !["physical_defense"] = 8, !["is_magic"] = TRUE,
                                !["true_damage_on_new_turn"] = 1]}

\* the attributes of the traits an Entity may be given, by trait name
TraitAttributes ==
    [Armored |-> [Attributes_default EXCEPT !["physical_defense"] = 2],
     Blessed |-> [Attributes_default EXCEPT !["max_health_points"] = 3,
                                            !["critical_hit_threshold"] = -1,
                                            !["is_magic"] = TRUE],
     Cursed |-> [Attributes_default EXCEPT !["physical_defense"] = -1,
                                           !["is_exposed"] = TRUE]]

TraitNames == DOMAIN TraitAttributes

\* Entity.__init__
NewEntity(attributes, traits) ==
    [name |-> "entity", base_attributes |-> attributes, base_traits |-> traits,
     cached_attributes |-> <<>>]

\* Entity.add_trait: a trait whose name is already held is not added again; the
\* cache is dropped
add_trait(e, trait) ==
    [e EXCEPT !.base_traits = IF trait \in Range(@) THEN @ ELSE Append(@, trait),
              !.cached_attributes = <<>>]

\* Entity.get_attribute_sources
get_attribute_sources(e) ==
    <<e.base_attributes>> \o [i \in 1..Len(e.base_traits) |-> TraitAttributes[e.base_traits[i]]]

\* Entity.aggregate_attributes, lines 118-120: the fold over the sources
RECURSIVE sum_of_sources(_, _)
sum_of_sources(final_attributes, sources) ==
    IF sources = <<>> THEN final_attributes
    ELSE sum_of_sources(Attributes_add(final_attributes, Head(sources)), Tail(sources))

\* Entity.aggregate_attributes: the entity after the call; the bundle returned is
\* the one in its cache
aggregate_attributes(e) ==
    IF e.cached_attributes = <<>>
    THEN [e EXCEPT !.cached_attributes =
                      <<sum_of_sources(Attributes_default, get_attribute_sources(e))>>]
    ELSE e

InitAttributes ==
    /\ actor = [a \in Actors |-> NewActor(a, "DefaultStrategy")]
    /\ ManagerIdle
    /\ pc = "direct"
    /\ attack_log = NoAttack
    /\ damage_log = <<>>
    /\ ops = 0
    /\ last_call = NoCall
    /\ round_turns = <<>>
    /\ rounds_started = 0
    /\ \E attributes \in BaseAttributesPool :
          \E traits \in {<<>>} \cup {<<t>> : t \in TraitNames} :
             entity = NewEntity(attributes, traits)

\* entity.add_trait(trait)
AddTrait(trait) ==
    /\ ops < MaxOps
    /\ entity' = add_trait(entity, trait)
    /\ last_call' = [op |-> "add_trait", trait |-> trait]
    /\ ops' = ops + 1
    /\ UNCHANGED <<actor, manager_vars, attack_log, damage_log, round_turns, rounds_started>>

\* entity.aggregate_attributes()
AggregateAttributes ==
    /\ ops < MaxOps
    /\ entity' = aggregate_attributes(entity)
    /\ last_call' = [op |-> "aggregate_attributes",
                     result |-> entity'.cached_attributes[1]]
    /\ ops' = ops + 1
    /\ UNCHANGED <<actor, manager_vars, attack_log, damage_log, round_turns, rounds_started>>

NextAttributes ==
    \/ \E trait \in TraitNames : AddTrait(trait)
    \/ AggregateAttributes

SpecAttributes == InitAttributes /\ [][NextAttributes]_vars

-----------------------------------------------------------------------------
(* entity.py, traits.py and actions.py: the traits of several entities as       *)
(* objects.  A Trait is an object with a name and a remaining duration; the     *)
(* base_traits of an Entity is a list of references to such objects, and the    *)
(* traits of an ImposeTrait action is a list of references too.                 *)

\* math.inf: inf - 1 = inf, max(inf, d) = inf, and inf <= 0 is false
inf == 1000

\* the Trait objects constructed for the run: Trait(name, duration)
TraitObjects ==
    [armor2 |-> [name |-> "Armored", duration |-> 2],
     armor3 |-> [name |-> "Armored", duration |-> 3],
     bless1 |-> [name |-> "Blessed", duration |-> 1],
     curse |-> [name |-> "Cursed", duration |-> inf]]

TraitIds == DOMAIN TraitObjects

\* the entities of the run
EntityNames == {"e1", "e2"}

\* the lists of traits an ImposeTrait action is constructed with
ImposedTraitLists == {<<"armor2">>, <<"bless1">>, <<"armor3", "curse">>}

\* the lists of targets an ImposeTrait action is executed on
ImposeTargetLists == {<<"e1">>, <<"e2">>, <<"e1", "e2">>}

\* what an entity expects of a trait it holds, by the trait's name: the number
\* of its own updates the trait has left (0: none, the trait is not held).  An
\* addition of a trait whose duration is d >= 1 leaves Max(expected, d) and an
\* update of the entity takes 1 off; a name whose trait was added with a
\* duration below 1 is unaccounted until a trait of the name is added anew.
expected_after_add(expected, held, d) ==
    IF held THEN Max(expected, d) ELSE Max(d, 0)

unaccounted_after_add(unaccounted, name, held, d) ==
    IF held THEN unaccounted
    ELSE IF d < 1 THEN unaccounted \cup {name}
    ELSE unaccounted \ {name}

expected_after_update(expected) ==
    IF expected = inf THEN expected ELSE Max(expected - 1, 0)

\* Entity(name) for each name of EntityNames, and the Trait objects
NewEntities ==
    [name |-> "entities",
     heap |-> TraitObjects,
     base_traits |-> [e \in EntityNames |-> <<>>],
     cached_attributes |-> [e \in EntityNames |-> <<>>],
     expected |-> [e \in EntityNames |-> [n \in TraitNames |-> 0]],
     unaccounted |-> [e \in EntityNames |-> {}]]

\* the first trait of base_traits with the name, or NONE
RECURSIVE existing_trait(_, _, _)
existing_trait(heap, base_traits, name) ==
    IF base_traits = <<>> THEN NONE
    ELSE IF heap[Head(base_traits)].name = name THEN Head(base_traits)
    ELSE existing_trait(heap, Tail(base_traits), name)

\* Entity._add_single_trait: a trait of the same name keeps its place and takes
\* the larger duration; otherwise the object passed is appended as it is
Entity_add_single_trait(w, e, new_trait) ==
    LET name == w.heap[new_trait].name
        existing == existing_trait(w.heap, w.base_traits[e], name)
        d == w.heap[new_trait].duration
        counted == [w EXCEPT !.expected[e][name] =
                                expected_after_add(@, existing # NONE, d),
                             !.unaccounted[e] =
                                unaccounted_after_add(@, name, existing # NONE, d)]
    IN IF existing # NONE
       THEN [counted EXCEPT !.heap[existing].duration = Max(@, d)]
       ELSE [counted EXCEPT !.base_traits[e] = Append(@, new_trait)]

\* Entity.invalidate_cache
Entity_invalidate_cache(w, e) == [w EXCEPT !.cached_attributes[e] = <<>>]

\* Entity.add_trait(trait) with a single Trait
Entity_add_trait(w, e, trait) ==
    Entity_invalidate_cache(Entity_add_single_trait(w, e, trait), e)

\* Entity.add_trait(traits) with a list
RECURSIVE Entity_add_traits(_, _, _)
Entity_add_traits(w, e, traits) ==
    IF traits = <<>> THEN Entity_invalidate_cache(w, e)
    ELSE Entity_add_traits(Entity_add_single_trait(w, e, Head(traits)), e, Tail(traits))

\* Entity.remove_trait(traits) with a list: list.remove of each trait that is
\* in base_traits, then the cache is dropped
Entity_remove_trait(w, e, traits) ==
    Entity_invalidate_cache(
        [w EXCEPT !.base_traits[e] = SelectSeq(@, LAMBDA t : t \notin Range(traits))], e)

\* Entity.update_traits, lines 95-96: trait.duration -= 1 for each trait of the
\* list in turn
RECURSIVE decrease_durations(_, _)
decrease_durations(heap, traits) ==
    IF traits = <<>> THEN heap
    ELSE decrease_durations(
            [heap EXCEPT ![Head(traits)].duration = IF @ = inf THEN inf ELSE @ - 1],
            Tail(traits))

\* Entity.update_traits
Entity_update_traits(w, e) ==
    LET heap == decrease_durations(w.heap, w.base_traits[e])
        expired_traits == SelectSeq(w.base_traits[e], LAMBDA t : heap[t].duration <= 0)
        decreased == [w EXCEPT !.heap = heap,
                               !.expected[e] =
                                   [n \in TraitNames |-> expected_after_update(@[n])]]
    IN IF expired_traits # <<>>
       THEN Entity_remove_trait(Entity_invalidate_cache(decreased, e), e, expired_traits)
       ELSE decreased

\* Entity.get_attribute_sources of one of the entities, each constructed with
\* the default Attributes
Entity_get_attribute_sources(w, e) ==
    <<Attributes_default>> \o
        [i \in 1..Len(w.base_traits[e]) |-> TraitAttributes[w.heap[w.base_traits[e][i]].name]]

\* Entity.aggregate_attributes of one of the entities
Entity_aggregate_attributes(w, e) ==
    IF w.cached_attributes[e] = <<>>
    THEN [w EXCEPT !.cached_attributes[e] =
                      <<sum_of_sources(Attributes_default, Entity_get_attribute_sources(w, e))>>]
    ELSE w

\* ImposeTrait.execute, lines 463-469: every trait of the action goes to every
\* target in turn
RECURSIVE impose_on_target(_, _, _)
impose_on_target(w, target, traits) ==
    IF traits = <<>> THEN w
    ELSE impose_on_target(Entity_add_trait(w, target, Head(traits)), target, Tail(traits))

RECURSIVE impose_on_targets(_, _, _)
impose_on_targets(w, targets, traits) ==
    IF targets = <<>> THEN w
    ELSE impose_on_targets(impose_on_target(w, Head(targets), traits), Tail(targets), traits)

InitTraits ==
    /\ actor = [a \in Actors |-> NewActor(a, "DefaultStrategy")]
    /\ ManagerIdle
    /\ pc = "direct"
    /\ attack_log = NoAttack
    /\ damage_log = <<>>
    /\ ops = 0
    /\ last_call = NoCall
    /\ round_turns = <<>>
    /\ rounds_started = 0
    /\ entity = NewEntities

\* a call on the entities that leaves the actors alone
EntityCall(call, w) ==
    /\ ops < MaxOps
    /\ entity' = w
    /\ last_call' = call
    /\ ops' = ops + 1
    /\ UNCHANGED <<actor, manager_vars, attack_log, damage_log, round_turns, rounds_started>>

\* e.add_trait(trait)
AddTraitObject(e, trait) ==
    /\ ops < MaxOps
    /\ EntityCall([op |-> "add_trait", entity |-> e, trait |-> trait],
                  Entity_add_trait(entity, e, trait))

\* e.add_trait(traits)
AddTraitList(e, traits) ==
    /\ ops < MaxOps
    /\ EntityCall([op |-> "add_trait", entity |-> e, traits |-> traits],
                  Entity_add_traits(entity, e, traits))

\* e.update_traits()
UpdateTraits(e) ==
    /\ ops < MaxOps
    /\ EntityCall([op |-> "update_traits", entity |-> e], Entity_update_traits(entity, e))

\* e.aggregate_attributes()
AggregateAttributesOf(e) ==
    /\ ops < MaxOps
    /\ EntityCall([op |-> "aggregate_attributes", entity |-> e],
                  Entity_aggregate_attributes(entity, e))

\* ImposeTrait(cost, traits).execute(source, targets): nothing happens when the
\* source cannot pay
ImposeTrait(source, targets, cost, traits) ==
    /\ ops < MaxOps
    /\ entity' = IF CanPay(actor, source, cost)
                 THEN impose_on_targets(entity, targets, traits)
                 ELSE entity
    /\ actor' = IF CanPay(actor, source, cost) THEN Pay(actor, source, cost) ELSE actor
    /\ last_call' = [op |-> "ImposeTrait", source |-> source, targets |-> targets,
                     traits |-> traits, cost |-> cost]
    /\ ops' = ops + 1
    /\ UNCHANGED <<manager_vars, attack_log, damage_log, round_turns, rounds_started>>

NextTraits ==
    \/ \E e \in EntityNames : \E trait \in TraitIds : AddTraitObject(e, trait)
    \/ \E e \in EntityNames : AddTraitList(e, <<"bless1", "armor3">>)
    \/ \E e \in EntityNames : UpdateTraits(e)
    \/ \E e \in EntityNames : AggregateAttributesOf(e)
    \/ \E targets \in ImposeTargetLists : \E traits \in ImposedTraitLists :
          \E cost \in {Cost(0, 0, 0), Cost(3, 0, 0)} :
             ImposeTrait("a1", targets, cost, traits)

SpecTraits == InitTraits /\ [][NextTraits]_vars

\* traits reach the entities through ImposeTrait only
NextImpose ==
    \/ \E e \in EntityNames : UpdateTraits(e)
    \/ \E e \in EntityNames : AggregateAttributesOf(e)
    \/ \E targets \in ImposeTargetLists : \E traits \in ImposedTraitLists :
          \E cost \in {Cost(0, 0, 0), Cost(3, 0, 0)} :
             ImposeTrait("a1", targets, cost, traits)

SpecImpose == InitTraits /\ [][NextImpose]_vars

-----------------------------------------------------------------------------
(* actors.py, items.py and modifiers.py: the modifiers of an Actor and of the   *)
(* items it holds, as objects, and the cache of their aggregation.  actors.py   *)
(* reads the list of an item as item.modifiers where items.py names it          *)
(* damage_modifiers: the model reads the two names as the one list.             *)

\* conditions.py: a Condition of the class name, constructed without a duration
Condition(name) == [kind |-> name, timed |-> FALSE, duration |-> 0]

ConditionKinds == {"Dazed", "Exposed"}

\* issubclass(kind, base_class) in the hierarchy of modifiers.py and conditions.py
IsSubclass(kind, base_class) ==
    \/ kind = base_class
    \/ base_class = "Modifier"
    \/ base_class = "DamageModifier" /\ kind \in {"Resistance", "Vulnerability"}
    \/ base_class = "Condition" /\ kind \in ConditionKinds

\* the modifier objects of the study, as constructed
ModifierObjects ==
    [ward |-> Timed(Resistance("Fire", 1, FALSE), 1),
     rune |-> Timed(Vulnerability("Fire", 1, FALSE), 2),
     hide |-> Resistance("Slashing", 1, FALSE),
     guard |-> Timed(DefenseModifier(1, 1, 0), 2),
     daze |-> Timed(Condition("Dazed"), 1)]

ModifierIds == DOMAIN ModifierObjects

ItemNames == {"ring", "cloak"}

\* the classes Actor.resistances, vulnerabilities, conditions and modifiers
\* ask the cache for
CacheKeys == {"Resistance", "Vulnerability", "Condition", "Modifier"}

\* ModifierManager._add_single_modifier on the dict of lists, kept in insertion order
RECURSIVE manager_add(_, _, _)
manager_add(manager, mod_type, m) ==
    IF manager = <<>> THEN <<[type |-> mod_type, mods |-> <<m>>]>>
    ELSE IF Head(manager).type = mod_type
    THEN <<[Head(manager) EXCEPT !.mods = Append(@, m)]>> \o Tail(manager)
    ELSE <<Head(manager)>> \o manager_add(Tail(manager), mod_type, m)

\* ModifierManager._remove_single_modifier: the first occurrence leaves the list of
\* its type, and a list left empty leaves the dict
RECURSIVE manager_remove(_, _, _)
manager_remove(manager, mod_type, m) ==
    IF manager = <<>> THEN <<>>
    ELSE IF Head(manager).type = mod_type
    THEN LET left == RemoveFirst(Head(manager).mods, m)
         IN IF left = <<>> THEN Tail(manager)
            ELSE <<[Head(manager) EXCEPT !.mods = left]>> \o Tail(manager)
    ELSE <<Head(manager)>> \o manager_remove(Tail(manager), mod_type, m)

\* Actor.__init__, lines 98-110, with its base_modifiers and equipped_items, and
\* Item.__init__ with the damage_modifiers of each item
NewHolder(base_modifiers, equipped_items, damage_modifiers) ==
    LET RECURSIVE added(_)
        added(mods) == IF mods = <<>> THEN <<>>
                       ELSE manager_add(added(SubSeq(mods, 1, Len(mods) - 1)),
                                        ModifierObjects[mods[Len(mods)]].kind,
                                        mods[Len(mods)])
    IN [name |-> "Actor",
        heap |-> ModifierObjects,
        manager |-> added(base_modifiers),
        items |-> equipped_items,
        item_modifiers |-> damage_modifiers,
        cache |-> [k \in CacheKeys |-> <<>>]]

\* the modifiers of the lists, in order, that are instances of base_class
RECURSIVE of_class(_, _, _)
of_class(h, mods, base_class) ==
    IF mods = <<>> THEN <<>>
    ELSE (IF IsSubclass(h.heap[Head(mods)].kind, base_class) THEN <<Head(mods)>> ELSE <<>>)
            \o of_class(h, Tail(mods), base_class)

RECURSIVE items_modifiers(_, _, _)
items_modifiers(h, items, base_class) ==
    IF items = <<>> THEN <<>>
    ELSE of_class(h, h.item_modifiers[Head(items)], base_class)
            \o items_modifiers(h, Tail(items), base_class)

RECURSIVE manager_modifiers(_, _, _)
manager_modifiers(h, manager, base_class) ==
    IF manager = <<>> THEN <<>>
    ELSE of_class(h, Head(manager).mods, base_class)
            \o manager_modifiers(h, Tail(manager), base_class)

\* Actor.aggregate_modifiers on the objects: the modifiers of the held items, then
\* the actor's own
Actor_aggregate_modifiers(h, base_class) ==
    items_modifiers(h, h.items, base_class) \o manager_modifiers(h, h.manager, base_class)

\* Actor.get_cached_modifiers: the list returned and the holder after the call;
\* a cache entry is <<>> when absent and <<the list>> when present
get_cached_modifiers(h, modifier_class) ==
    IF h.cache[modifier_class] = <<>>
    THEN LET fresh == Actor_aggregate_modifiers(h, modifier_class)
         IN [mods |-> fresh, holder |-> [h EXCEPT !.cache[modifier_class] = <<fresh>>]]
    ELSE [mods |-> h.cache[modifier_class][1], holder |-> h]

\* Actor.invalidate_modifiers_cache
invalidate_modifiers_cache(h) == [h EXCEPT !.cache = [k \in CacheKeys |-> <<>>]]

\* Actor.add_item, ItemManager.add_item
add_item(h, item) ==
    invalidate_modifiers_cache(
        IF item \in Range(h.items) THEN h ELSE [h EXCEPT !.items = Append(@, item)])

\* Actor.remove_item, ItemManager.remove_item
remove_item(h, item) ==
    invalidate_modifiers_cache([h EXCEPT !.items = RemoveFirst(@, item)])

\* Actor.add_modifier
add_modifier(h, m) ==
    invalidate_modifiers_cache(
        [h EXCEPT !.manager = manager_add(@, h.heap[m].kind, m)])

\* Actor.remove_modifier
remove_modifier(h, m) ==
    invalidate_modifiers_cache(
        [h EXCEPT !.manager = manager_remove(@, h.heap[m].kind, m)])

\* Item.add_modifier: the item knows no actor
Item_add_modifier(h, item, m) ==
    [h EXCEPT !.item_modifiers[item] = Append(@, m)]

\* Item.remove_modifier
Item_remove_modifier(h, item, m) ==
    [h EXCEPT !.item_modifiers[item] = RemoveFirst(@, m)]

\* Actor.update_modifiers, lines 528-531: decrease_duration on each modifier of
\* the list, in order; the heap after the calls and the modifiers that expired
RECURSIVE decrease_each(_, _)
decrease_each(heap, mods) ==
    IF mods = <<>> THEN [heap |-> heap, expired |-> <<>>]
    ELSE LET m == Head(mods)
             heap1 == [heap EXCEPT ![m] = decrease_duration(@)]
             rest == decrease_each(heap1, Tail(mods))
         IN [heap |-> rest.heap,
             expired |-> (IF heap1[m].timed /\ heap1[m].duration <= 0
                          THEN <<m>> ELSE <<>>) \o rest.expired]

\* lines 533-535: remove_modifier for each expired modifier
RECURSIVE remove_each(_, _)
remove_each(h, expired) ==
    IF expired = <<>> THEN h
    ELSE remove_each(remove_modifier(h, Head(expired)), Tail(expired))

\* Actor.update_modifiers on the objects
Actor_update_modifiers(h) ==
    LET got == get_cached_modifiers(h, "Modifier")
        aged == decrease_each(got.holder.heap, got.mods)
    IN remove_each([got.holder EXCEPT !.heap = aged.heap], aged.expired)

\* the lists an actor or an item is constructed with
ModifierLists == {<<>>, <<"ward">>, <<"rune", "hide">>, <<"guard">>}

InitModifiers ==
    /\ \E base_modifiers \in ModifierLists :
          \E on_ring \in {l \in ModifierLists : Range(l) \cap Range(base_modifiers) = {}} :
             \E equipped_items \in {<<>>, <<"ring">>} :
                 entity = NewHolder(base_modifiers, equipped_items,
                                    [i \in ItemNames |-> IF i = "ring" THEN on_ring ELSE <<>>])
    /\ actor = [a \in Actors |-> NewActor(a, "DefaultStrategy")]
    /\ ManagerIdle
    /\ pc = "direct"
    /\ attack_log = NoAttack
    /\ damage_log = <<>>
    /\ ops = 0
    /\ last_call = NoCall
    /\ round_turns = <<>>
    /\ rounds_started = 0

\* one call on the actor or on an item, leaving the holder h
HolderCall(call, h) ==
    /\ pc = "direct"
    /\ ops < MaxOps
    /\ entity' = h
    /\ ops' = ops + 1
    /\ last_call' = call
    /\ UNCHANGED <<actor, manager_vars, attack_log, damage_log, round_turns, rounds_started>>

AddItem(item) == HolderCall([op |-> "add_item", item |-> item], add_item(entity, item))

RemoveItem(item) ==
    HolderCall([op |-> "remove_item", item |-> item], remove_item(entity, item))

AddModifier(m) ==
    HolderCall([op |-> "add_modifier", modifier |-> m], add_modifier(entity, m))

RemoveModifier(m) ==
    HolderCall([op |-> "remove_modifier", modifier |-> m], remove_modifier(entity, m))

ItemAddModifier(item, m) ==
    HolderCall([op |-> "Item.add_modifier", item |-> item, modifier |-> m],
               Item_add_modifier(entity, item, m))

ItemRemoveModifier(item, m) ==
    HolderCall([op |-> "Item.remove_modifier", item |-> item, modifier |-> m],
               Item_remove_modifier(entity, item, m))

\* actor.resistances, actor.vulnerabilities, actor.conditions
ReadModifiers(modifier_class) ==
    HolderCall([op |-> "get_cached_modifiers", modifier_class |-> modifier_class],
               get_cached_modifiers(entity, modifier_class).holder)

\* actor.new_round(): its call of update_modifiers
HolderNewRound ==
    HolderCall([op |-> "new_round"], Actor_update_modifiers(entity))

NextModifiers ==
    \/ \E item \in ItemNames : AddItem(item)
    \/ \E item \in ItemNames : RemoveItem(item)
    \/ \E m \in ModifierIds : AddModifier(m)
    \/ \E m \in ModifierIds : RemoveModifier(m)
    \/ \E item \in ItemNames : \E m \in ModifierIds : ItemAddModifier(item, m)
    \/ \E item \in ItemNames : \E m \in ModifierIds : ItemRemoveModifier(item, m)
    \/ \E modifier_class \in CacheKeys \ {"Modifier"} : ReadModifiers(modifier_class)
    \/ HolderNewRound

SpecModifiers == InitModifiers /\ [][NextModifiers]_vars

-----------------------------------------------------------------------------
(* The damage formula of the documentation, computed over index sets *)

RECURSIVE SumOver(_, _)
SumOver(mods, I) ==
    IF I = {} THEN 0
    ELSE LET i == CHOOSE j \in I : TRUE
         IN mods[i].value + SumOver(mods, I \ {i})

RECURSIVE ProductOver(_, _)
ProductOver(mods, I) ==
    IF I = {} THEN 1
    ELSE LET i == CHOOSE j \in I : TRUE
         IN mods[i].value * ProductOver(mods, I \ {i})

MatchingIndices(mods, kind, damage_type, mult) ==
    {i \in 1..Len(mods) :
        /\ mods[i].kind = kind
        /\ IsInstance(mods[i].damage_type, damage_type)
        /\ mods[i].is_multiplicative = mult}

RECURSIVE ReductionOver(_, _, _)
ReductionOver(mods, I, physical) ==
    IF I = {} THEN 0
    ELSE LET i == CHOOSE j \in I : TRUE
         IN (IF physical THEN mods[i].physical_damage_reduction
                         ELSE mods[i].mystical_damage_reduction)
            + ReductionOver(mods, I \ {i}, physical)

DocumentedDamage(mods, damage) ==
    LET t == damage.damage_type
        addR == SumOver(mods, MatchingIndices(mods, "Resistance", t, FALSE))
        mulR == ProductOver(mods, MatchingIndices(mods, "Resistance", t, TRUE))
        addV == SumOver(mods, MatchingIndices(mods, "Vulnerability", t, FALSE))
        mulV == ProductOver(mods, MatchingIndices(mods, "Vulnerability", t, TRUE))
        physical == t = "Physical" \/ t \in PhysicalKinds
        reduction == ReductionOver(mods, {i \in 1..Len(mods) : mods[i].kind = "DefenseModifier"},
                                   physical)
    IN Max(0, ((damage.value - addR) * mulR + addV) * mulV - reduction)

\* C6: for every combination of matching resistances, vulnerabilities and damage
\* reduction on the target, the final damage of a damage event is never negative,
\* so applying damage never raises the target's health.
C6_DamageNeverNegative ==
    \A i \in 1..Len(damage_log) :
        /\ damage_log[i].total_damage >= 0
        /\ damage_log[i].hp_after <= damage_log[i].hp_before

\* the pipeline went below zero before the clamp and the event was applied
C6_Witness ==
    \E i \in 1..Len(damage_log) :
        /\ damage_before_clamp(actor, damage_log[i].target, damage_log[i].damages[1]) < 0
        /\ damage_log[i].total_damage = 0
        /\ damage_log[i].hp_after = damage_log[i].hp_before

\* C7: the final damage of an event of magnitude v is
\* max(0, ((v - additive resistances) * multiplicative resistances
\*          + additive vulnerabilities) * multiplicative vulnerabilities - reduction),
\* the reduction being the physical one for physical kinds, the mystical one otherwise.
C7_DamageFormula ==
    \A i \in 1..Len(damage_log) :
        /\ Len(damage_log[i].damages) = 1
        /\ damage_log[i].total_damage
             = DocumentedDamage(actor[damage_log[i].target].modifiers, damage_log[i].damages[1])

\* an event that met additive and multiplicative vulnerabilities, a resistance
\* and a reduction, and still dealt damage
C7_Witness ==
    \E i \in 1..Len(damage_log) :
        LET e == damage_log[i]
            mods == actor[e.target].modifiers
            t == e.damages[1].damage_type
        IN /\ MatchingIndices(mods, "Resistance", t, FALSE) # {}
           /\ MatchingIndices(mods, "Vulnerability", t, FALSE) # {}
           /\ MatchingIndices(mods, "Vulnerability", t, TRUE) # {}
           /\ armor_reduction(actor, e.target, e.damages[1]) > 0
           /\ e.total_damage > 0

-----------------------------------------------------------------------------
(* Claims about the CombatManager *)

\* no member of the team has health above zero
NoneLiving(team) == \A a \in Range(team) : actor[a].health_points <= 0

TeamDown == NoneLiving(team_a) \/ NoneLiving(team_b)

\* the last take_damage call brought its target from positive health to none
LethalHit ==
    /\ damage_log # <<>>
    /\ damage_log[Len(damage_log)].hp_before > 0
    /\ damage_log[Len(damage_log)].hp_after <= 0

\* C1: is_combat_over() is true iff at least one of the two teams has no member
\* with health above zero; it is false exactly when both teams have a living member.
C1_CombatOverIffTeamDown ==
    /\ is_combat_over(actor) <=> TeamDown
    /\ ~is_combat_over(actor) <=>
          /\ \E a \in Range(team_a) : actor[a].health_points > 0
          /\ \E b \in Range(team_b) : actor[b].health_points > 0

\* one lethal hit has just left team_b without a living member while team_a lives
C1_Witness ==
    /\ LethalHit
    /\ NoneLiving(team_b)
    /\ ~NoneLiving(team_a)
    /\ is_combat_over(actor)

\* C2: once one team has no living member, no further action is executed and no
\* further turn is started in that run_combat call: no step taken from such a state
\* changes an actor or a log, picks an actor for a turn, counts a turn or a round,
\* or goes back into the round or the turn.
C2_NothingAfterTeamDown ==
    [][TeamDown =>
          /\ actor' = actor
          /\ attack_log' = attack_log
          /\ damage_log' = damage_log
          /\ cur' = cur
          /\ turns_count' = turns_count
          /\ rounds_count' = rounds_count
          /\ pc' \notin {"for", "turn"}]_vars

\* run_combat has returned after a fight that ended in the middle of a round,
\* with actors of the turn order still to play
C2_Witness ==
    /\ pc = "done"
    /\ TeamDown
    /\ round_i + 1 < Len(turn_order)
    /\ \E a \in Actors : actor[a].health_points > 0 /\ actor[a].action_points > 0

\* C3: execute_turn always terminates: whatever the strategy, a turn that has
\* started is eventually left, also when the chosen action changes no state.
C3_TurnTerminates == (pc = "turn") ~> (pc # "turn")

\* C4: run_combat drives the fight to completion: it eventually returns with one
\* team down (the fight is followed for MaxRounds counted rounds, and a fight still
\* under way at that point is left undecided).
C4_CombatCompletes == <>(pc = "done" \/ pc = "cutoff")

\* C5: when run_combat returns, combat is over and the reported winning team is the
\* team that still has a member with health above zero, the other team having none.
C5_WinnerIsSurvivingTeam ==
    pc = "done" =>
        /\ TeamDown
        /\ result.winning_team \in {"A", "B"}
        /\ result.winning_team = "A" => (~NoneLiving(team_a) /\ NoneLiving(team_b))
        /\ result.winning_team = "B" => (~NoneLiving(team_b) /\ NoneLiving(team_a))

\* run_combat has returned team B as the winner over a team_a with no living member
C5_Witness ==
    /\ pc = "done"
    /\ result.winning_team = "B"
    /\ NoneLiving(team_a)
    /\ actor["b1"].health_points > 0

-----------------------------------------------------------------------------
(* Claims about Attack.execute *)

Attacked == attack_log.source # NONE

\* the damage a component deals when the armor reduction is left out
damage_without_reduction(A, a, damage) ==
    Max(damage_before_clamp(A, a, damage) + armor_reduction(A, a, damage), 0)

\* C8: on a heavy hit (total at least 5 above the physical defense) or a critical
\* hit the target's damage reduction is subtracted from no damage component of the
\* attack; on an ordinary hit it is subtracted.
C8_HeavyOrCriticalBypassesReduction ==
    (Attacked /\ attack_log.hit) =>
        \A i \in 1..Len(attack_log.applied) :
            LET e == attack_log.applied[i]
            IN IF attack_log.is_critical_hit \/ attack_log.is_heavy_hit
               THEN e.total_damage = damage_without_reduction(actor, e.target, e.damages[1])
               ELSE e.total_damage = calculate_damage_taken(actor, e.target, e.damages[1])

\* C9: a raw die equal to the critical-hit threshold always hits and adds the
\* critical-hit damage, whatever the total and the defense; any other attack hits
\* iff its total is at least the target's physical defense.
C9_CriticalAlwaysHits ==
    Attacked =>
        IF attack_log.attack_roll = critical_hit_threshold
        THEN /\ attack_log.hit
             /\ attack_log.damage_bonus
                  = attack_log.heavy_bonus + critical_hit_damage
                      + ActorSheet[attack_log.source].hit_damage
             /\ Len(attack_log.applied) = Len(ActorSheet[attack_log.source].weapon_damages)
             /\ attack_log.applied[1].damages[1].value
                  = ActorSheet[attack_log.source].weapon_damages[1].value
                      + attack_log.damage_bonus + attack_log.style_bonus
        ELSE /\ attack_log.hit <=> attack_log.attack_tot_target >= attack_log.physical_defense
             /\ attack_log.hit =>
                  attack_log.damage_bonus
                    = attack_log.heavy_bonus + ActorSheet[attack_log.source].hit_damage

\* a critical hit whose total is below the target's physical defense
C9_Witness ==
    /\ Attacked
    /\ attack_log.attack_roll = critical_hit_threshold
    /\ attack_log.attack_tot_target < attack_log.physical_defense
    /\ attack_log.hit
    /\ Len(attack_log.applied) > 0

\* C10: on a hit with margin m = total - physical defense, m < 5 adds no heavy or
\* brutal bonus, 5 <= m < 10 adds exactly the heavy-hit increment, m = 10 adds the
\* heavy-hit increment and one brutal increment; in general the bonus is
\* heavy_hit_damage + (floor(m / 5) - 1) * brutal_hit_damage.
C10_HeavyBrutalTiers ==
    (Attacked /\ attack_log.hit) =>
        LET m == attack_log.attack_tot_target - attack_log.physical_defense
        IN /\ m < 5 => attack_log.heavy_bonus = 0
           /\ (5 <= m /\ m < 10) => attack_log.heavy_bonus = heavy_hit_damage
           /\ m = 10 => attack_log.heavy_bonus = heavy_hit_damage + brutal_hit_damage
           /\ m >= 5 => attack_log.heavy_bonus
                          = heavy_hit_damage + ((m \div 5) - 1) * brutal_hit_damage

\* a hit with a margin of exactly 10 and one with a margin of 15 or more both occur
\* in the runs; this is the state after the former
C10_Witness ==
    /\ Attacked
    /\ attack_log.hit
    /\ attack_log.attack_tot_target - attack_log.physical_defense = 10
    /\ attack_log.heavy_bonus = heavy_hit_damage + brutal_hit_damage


-----------------------------------------------------------------------------
(* Claims about the resource pools *)

\* C15: after any sequence of damage applications every actor's current health
\* points are at least 0 and at most its maximum health points.
C15_HealthWithinBounds ==
    \A a \in Actors :
        0 <= actor[a].health_points /\ actor[a].health_points <= max_health_points(a)

\* whether an actor lacks one of the three pools for a cost
ShortOf(A, a, cost) ==
    \/ A[a].action_points < cost.action_points_cost
    \/ A[a].mana_points < cost.mana_points_cost
    \/ A[a].stamina_points < cost.stamina_points_cost

\* the step is a Help by actor a that a could pay for
HelpPaidBy(a) ==
    /\ last_call'.op = "Help"
    /\ last_call'.source = a
    /\ ~ShortOf(actor, a, last_call'.cost)

\* the step is a round reset of actor a
RoundResetOf(a) ==
    \/ last_call'.op = "new_round" /\ last_call'.source = a
    \/ last_call'.op = "reset_combat"

DocumentedHelpSides(k) == IF k = 1 THEN 8 ELSE IF k = 2 THEN 6 ELSE 4

\* C11: an actor's help count is the number of Helps it paid for since its last
\* round reset, and the k-th such Help adds to the target's one-time hit bonus a
\* value in 1..8 for k = 1, in 1..6 for k = 2 and in 1..4 for k >= 3, k being
\* counted on the helper and not on the target; after a round reset the count
\* starts again, so the next Help is a d8.
C11_HelpStacking ==
    [][\A a \in Actors :
          /\ actor'[a].help_count =
                IF HelpPaidBy(a) THEN actor[a].help_count + 1
                ELSE IF RoundResetOf(a) THEN 0
                ELSE actor[a].help_count
          /\ HelpPaidBy(a) =>
                LET t == last_call'.target
                    k == actor[a].help_count + 1
                IN (actor'[t].one_time_hit_bonus - actor[t].one_time_hit_bonus)
                      \in 1..DocumentedHelpSides(k)]_vars

\* the third Help one actor paid for in a round has just been executed
C11_Witness ==
    /\ last_call.op = "Help"
    /\ actor[last_call.source].help_count = 3
    /\ actor[last_call.source].action_points = max_action_points(last_call.source) - 3
    /\ actor[last_call.target].one_time_hit_bonus >= 1

\* C12: after the round reset of an actor its action points are at the maximum and
\* its attack, advantage and help counts are 0, whatever they were before, and a
\* second reset right after leaves these four fields as they are.
C12_RoundResetIdempotent ==
    last_call.op = "new_round" =>
        LET a == last_call.source
            again == new_round(actor, a)
        IN /\ actor[a].action_points = max_action_points(a)
           /\ actor[a].attack_count = 0
           /\ actor[a].advantage_count = 0
           /\ actor[a].help_count = 0
           /\ again[a].action_points = actor[a].action_points
           /\ again[a].attack_count = actor[a].attack_count
           /\ again[a].advantage_count = actor[a].advantage_count
           /\ again[a].help_count = actor[a].help_count

\* a1 helped a2 (nobody else has spent an action point) and then had its round
\* reset: the reset found a1 with a spent action point and a help count of 1
C12_Witness ==
    /\ ops = 2
    /\ last_call.op = "new_round"
    /\ last_call.source = "a1"
    /\ actor["a2"].one_time_hit_bonus > 0
    /\ actor["b1"].action_points = max_action_points("b1")
    /\ actor["a2"].action_points = max_action_points("a2")
    /\ actor["a1"].action_points = max_action_points("a1")
    /\ actor["a1"].help_count = 0

\* C13: executing an action whose cost the source cannot cover in one of the three
\* pools changes nothing: no pool is deducted, no counter, flag, target, health or
\* log changes.
C13_UnpayableIsNoOp ==
    [][(/\ last_call'.op \in ActionKinds
        /\ ShortOf(actor, last_call'.source, last_call'.cost))
          => UNCHANGED <<actor, attack_log, damage_log>>]_vars

\* a1, which never has mana, was asked for an action costing an action point and
\* a mana point while it had action points
C13_Witness ==
    /\ last_call.op = "InflictDamage"
    /\ last_call.source = "a1"
    /\ last_call.cost = Cost(1, 1, 0)
    /\ actor["a1"].action_points = max_action_points("a1")
    /\ actor["a1"].mana_points = 0
    /\ actor[last_call.target].health_points = max_health_points(last_call.target)

\* C14: each actor's action points, mana points and stamina points are at least 0
\* and at most the respective maximum after any sequence of actions and round
\* resets.
C14_PoolsWithinBounds ==
    \A a \in Actors :
        /\ 0 <= actor[a].action_points /\ actor[a].action_points <= max_action_points(a)
        /\ 0 <= actor[a].mana_points /\ actor[a].mana_points <= max_mana_points(a)
        /\ 0 <= actor[a].stamina_points /\ actor[a].stamina_points <= max_stamina_points(a)

\* an actor with no action point left was asked for one more action
C14_Witness ==
    /\ ops = MaxOps
    /\ last_call.op \in ActionKinds
    /\ last_call.cost.action_points_cost > 0
    /\ actor[last_call.source].action_points = 0
    /\ actor["b1"].mana_points = 0

-----------------------------------------------------------------------------
(* Claims about health, resets and targeting under direct calls *)

\* the sum of the totals the damage applications of a log took from actor a
RECURSIVE TakenFrom(_, _)
TakenFrom(log, a) ==
    IF log = <<>> THEN 0
    ELSE (IF Head(log).target = a THEN Head(log).total_damage ELSE 0)
           + TakenFrom(Tail(log), a)

\* the sum of the final damages of the events of one damage application
RECURSIVE FinalDamages(_, _, _)
FinalDamages(A, a, damages) ==
    IF damages = <<>> THEN 0
    ELSE Max(0, damage_before_clamp(A, a, Head(damages)))
           + FinalDamages(A, a, Tail(damages))

\* the step applies damage: an Attack or InflictDamage that was paid for and,
\* for an Attack, hit
AppliesDamage ==
    /\ last_call'.op \in {"Attack", "InflictDamage"}
    /\ ~ShortOf(actor, last_call'.source, last_call'.cost)
    /\ last_call'.op = "Attack" => attack_log'.hit

\* C16: between resets of the combat, a step changes an actor's health points only
\* if it applies damage events: GainAdvantage, Dodge, Full_Dodge, Help, the
\* targeting actions and updates, the round reset, a missed Attack and an unpaid
\* action leave every health unchanged; a step that applies damage lowers each
\* actor's health by exactly the sum of the final damages of the events applied to it.
C16_OnlyDamageChangesHealth ==
    [][last_call'.op # "reset_combat" =>
         \A a \in Actors :
            LET lost == actor[a].health_points - actor'[a].health_points
            IN IF AppliesDamage
               THEN /\ lost = TakenFrom(damage_log', a)
                    /\ \A i \in 1..Len(damage_log') :
                          damage_log'[i].total_damage
                             = FinalDamages(actor, damage_log'[i].target,
                                            damage_log'[i].damages)
               ELSE lost = 0]_vars

\* the last of the calls is an Attack that hit: its target has lost exactly what
\* the log of the attack records and every other actor is at full health
C16_Witness ==
    /\ last_call.op = "Attack"
    /\ Attacked
    /\ attack_log.hit
    /\ Len(damage_log) > 0
    /\ TakenFrom(damage_log, last_call.target) > 0
    /\ actor[last_call.target].health_points
          = max_health_points(last_call.target) - TakenFrom(damage_log, last_call.target)
    /\ \A a \in Actors \ {last_call.target} :
          actor[a].health_points = max_health_points(a)
    /\ ops = MaxOps

\* C19: after reset_combat every actor is in the state its construction gave it:
\* pools at maximum, counters and one-time hit bonus 0, dodge flags false,
\* modifiers as constructed, no current target and no targeters.
C19_ResetRestoresConstruction ==
    last_call.op = "reset_combat" =>
        \A a \in Actors : actor[a] = NewActor(a, actor[a].strategy)

\* C20: selecting a target when no enemy is a valid candidate raises no error and
\* leaves the acting actor with no ally and not itself as its target.
C20_EmptyCandidatesGiveNoTarget ==
    (last_call.op = "select_target" /\ last_call.enemies = <<>>) =>
        /\ ~last_call.raised
        /\ actor[last_call.source].current_target
              \notin Range(allies_of(last_call.source))

-----------------------------------------------------------------------------
(* Claims about the turn order *)

\* the number of actors the cursor passes before it reaches a living one
RECURSIVE DeadAhead(_, _, _)
DeadAhead(A, order, index) ==
    IF A[order[index + 1]].health_points > 0 THEN 0
    ELSE 1 + DeadAhead(A, order, (index + 1) % Len(order))

\* C17: next_turn_actor never returns an actor whose health is <= 0: the actor it
\* returns is the first living one at or after the cursor, the cursor ends right
\* behind it, and when every actor of the turn order is dead it returns no actor.
C17_TurnSkipsDead ==
    last_call.op = "next_turn_actor" =>
        LET n == Len(turn_order)
            all_dead == \A i \in 1..n : actor[turn_order[i]].health_points <= 0
        IN /\ cur # NONE => actor[cur].health_points > 0
           /\ all_dead => cur = NONE
           /\ cur # NONE =>
                LET k == DeadAhead(actor, turn_order, last_call.index)
                IN /\ cur = turn_order[((last_call.index + k) % n) + 1]
                   /\ current_turn_index = (last_call.index + k + 1) % n

\* the cursor stood on a dead actor and the call returned a living one behind it
C17_Witness ==
    /\ last_call.op = "next_turn_actor"
    /\ Len(turn_order) = 3
    /\ actor[turn_order[last_call.index + 1]].health_points <= 0
    /\ cur # NONE
    /\ actor[cur].health_points > 0

TeamOf(a) == IF a \in Range(team_a) THEN "A" ELSE "B"

\* C18: the turn order roll_initiative produces holds every actor once, starts
\* with a team-A actor if team A's highest roll is >= initiative_dc and with a
\* team-B actor otherwise, changes team at every position while both teams have
\* actors left to place, and lists each team's actors in descending order of
\* their rolls; the actors left of the longer team come last.
C18_TurnOrderInterleaves ==
    last_call.op = "roll_initiative" =>
        LET rolls == last_call.rolls
            n == Len(turn_order)
            Placed(team, i) ==
                Cardinality({j \in 1..(i - 1) : TeamOf(turn_order[j]) = team})
            best_a == MaxOfSet({rolls[team_a[i]] : i \in 1..Len(team_a)})
        IN /\ n = Len(team_a) + Len(team_b)
           /\ Range(turn_order) = Actors
           /\ TeamOf(turn_order[1]) = IF best_a >= initiative_dc THEN "A" ELSE "B"
           /\ \A i \in 2..n :
                 (Placed("A", i) < Len(team_a) /\ Placed("B", i) < Len(team_b))
                    => TeamOf(turn_order[i]) # TeamOf(turn_order[i - 1])
           /\ \A i \in 1..n : \A j \in (i + 1)..n :
                 TeamOf(turn_order[i]) = TeamOf(turn_order[j])
                    => rolls[turn_order[i]] >= rolls[turn_order[j]]

\* team A's best roll is below initiative_dc: team B opens and, having one actor
\* only, is followed by both actors of team A
C18_Witness ==
    /\ last_call.op = "roll_initiative"
    /\ \A i \in 1..Len(team_a) : last_call.rolls[team_a[i]] < initiative_dc
    /\ turn_order = <<"b1", "a1", "a2">>

-----------------------------------------------------------------------------
(* Claims about the dice and the flags of Attack.execute *)

\* the step is an Attack its source could pay for
PaidAttack ==
    /\ last_call'.op = "Attack"
    /\ ~ShortOf(actor, last_call'.source, last_call'.cost)

\* C23: after a paid Attack in which the source's advantage count exceeded the
\* disadvantage count of the attack, the source's advantage count is 0; when it
\* did not exceed it, the Attack leaves the source's advantage count unchanged.
C23_AttackUsesUpAdvantage ==
    [][PaidAttack =>
         LET source == last_call'.source
             advantage == actor[source].advantage_count
         IN actor'[source].advantage_count
               = IF advantage > attack_log'.disadvantage_count THEN 0 ELSE advantage]_vars

\* C24: the disadvantage count of a paid Attack is max(0, n - max_attack_before_penalty),
\* plus 1 if the target is dodging or full-dodging, n being the number of attacks the
\* source had made since its last round reset before this one.
C24_DisadvantageCountsEarlierAttacks ==
    [][PaidAttack =>
         LET n == actor[last_call'.source].attack_count
             target == last_call'.target
         IN attack_log'.disadvantage_count
               = Max(0, n - max_attack_before_penalty)
                   + (IF actor[target].is_dodging \/ actor[target].is_full_dodging
                      THEN 1 ELSE 0)]_vars

\* C25: a paid Attack made with an advantage count a above its disadvantage count d
\* rolls a - d + 1 dice, more than one, and keeps the highest of them.
C25_AdvantageRollsMoreDice ==
    [][PaidAttack =>
         LET a == attack_log'.advantage_count
             d == attack_log'.disadvantage_count
         IN a > d => /\ attack_log'.n_rolls = a - d + 1
                     /\ attack_log'.n_rolls > 1]_vars

\* the step is an Attack that actor s paid for: it is the only step that counts
\* an attack of s
AttackPaidBy(s) == actor'[s].attack_count = actor[s].attack_count + 1

\* C26: a paid Attack leaves its target with the single-use dodge flag cleared and
\* the full-dodge flag as it was, whether it hits or misses, and the two flags
\* together add 1, not 2, to the disadvantage count the attack-count part gives.
C26_AttackConsumesDodgeOnly ==
    [][\A source \in Actors : AttackPaidBy(source) =>
         LET target == attack_log'.target
             flagged == actor[target].is_dodging \/ actor[target].is_full_dodging
         IN /\ attack_log'.source = source
            /\ actor'[target].is_dodging = FALSE
            /\ actor'[target].is_full_dodging = actor[target].is_full_dodging
            /\ attack_log'.disadvantage_count
                  - Max(0, actor'[source].attack_count - max_attack_before_penalty)
                  = IF flagged THEN 1 ELSE 0]_vars

\* the target had spent its action points on a Dodge and a Full_Dodge when it was
\* attacked: the attack carried a disadvantage of 1 and left the full dodge standing
C26_Witness ==
    /\ ops = 3
    /\ Attacked
    /\ actor[attack_log.source].attack_count = 1
    /\ actor[attack_log.target].action_points = max_action_points(attack_log.target) - 3
    /\ actor[attack_log.target].is_full_dodging
    /\ ~actor[attack_log.target].is_dodging
    /\ attack_log.disadvantage_count = 1

\* C28: after every paid Attack, hit or miss, the source's one-time hit bonus is 0,
\* and the bonus it held before the attack is in the total of that attack: the
\* bonus of a Help counts for the next attack of its target and for no later one.
C28_HitBonusUsedOnce ==
    [][\A source \in Actors : AttackPaidBy(source) =>
         LET held == actor[source].one_time_hit_bonus
         IN /\ attack_log'.source = source
            /\ actor'[source].one_time_hit_bonus = 0
            /\ attack_log'.one_time_hit_bonus = held
            /\ attack_log'.attack_tot_target
                  = attack_log'.attack_roll + prime_modifier(source)
                      + combat_mastery(source) + held + attack_log'.bonus_to_hit
                      + apply_styles(source, attack_log'.target)[2]]_vars

\* an actor that had been helped has made its first attack and missed: the bonus
\* of the Help is in the total of the attack and the actor holds none any more
C28_Witness ==
    /\ ops = 2
    /\ Attacked
    /\ actor[attack_log.source].attack_count = 1
    /\ attack_log.one_time_hit_bonus > 0
    /\ ~attack_log.hit
    /\ actor[attack_log.source].one_time_hit_bonus = 0

-----------------------------------------------------------------------------
(* Claims about death *)

\* health at or below the death threshold
Destroyed(a) == actor[a].health_points <= death_threshold

\* C21: an actor is left out of the turns and of the targeting exactly when its
\* health is at or below its death threshold: next_turn_actor returns the actor at
\* the cursor if its health is above the threshold and never one at or below it,
\* and the actor returned is left without a target only if every enemy is at or
\* below the threshold, its target being an actor above it.
C21_ExcludedIffBelowDeathThreshold ==
    (last_call.op = "next_turn_actor" /\ Len(turn_order) > 1) =>
        LET at_cursor == turn_order[last_call.index + 1]
        IN /\ ~Destroyed(at_cursor) => cur = at_cursor
           /\ cur # NONE =>
                /\ ~Destroyed(cur)
                /\ actor[cur].current_target = NONE
                      => \A e \in Range(enemies_of(cur)) : Destroyed(e)
                /\ actor[cur].current_target # NONE
                      => ~Destroyed(actor[cur].current_target)

-----------------------------------------------------------------------------
(* Claims about the attribute bundles *)

\* the sources taken in the order a permutation of their indices gives
Permuted(sources, p) == [i \in 1..Len(sources) |-> sources[p[i]]]

\* the fold of a sequence of bundles from the identity bundle
RECURSIVE FoldFromIdentity(_, _)
FoldFromIdentity(acc, bundles) ==
    IF bundles = <<>> THEN acc
    ELSE FoldFromIdentity(Attributes_add(acc, Head(bundles)), Tail(bundles))

\* the sum of one integer field over the bundles of an index set
RECURSIVE FieldTotal(_, _, _)
FieldTotal(sources, f, I) ==
    IF I = {} THEN 0
    ELSE LET i == CHOOSE j \in I : TRUE
         IN sources[i][f] + FieldTotal(sources, f, I \ {i})

\* C22: aggregating the attribute bundles of an entity does not depend on their
\* order: folding the sources in any permutation from the identity bundle gives the
\* bundle aggregate_attributes returns, whose integer fields are the sums and whose
\* boolean fields the disjunctions of the sources' fields, and the aggregation
\* leaves the source bundles as they were.
C22_AggregationOrderIndependent ==
    [][last_call'.op = "aggregate_attributes" =>
         LET sources == get_attribute_sources(entity)
             n == Len(sources)
             returned == last_call'.result
         IN /\ \A p \in Permutations(1..n) :
                  FoldFromIdentity(Attributes_default, Permuted(sources, p)) = returned
            /\ \A f \in IntFields : returned[f] = FieldTotal(sources, f, 1..n)
            /\ \A f \in BoolFields : returned[f] = (\E i \in 1..n : sources[i][f])
            /\ get_attribute_sources(entity') = sources]_vars

\* an entity with three different traits has been aggregated: four sources, two of
\* them magic, and defenses of both signs
C22_Witness ==
    /\ last_call.op = "aggregate_attributes"
    /\ Len(entity.base_traits) = 3
    /\ entity.base_attributes["physical_defense"] = 8
    /\ last_call.result["physical_defense"] = 9
    /\ last_call.result["is_exposed"]
    /\ entity.cached_attributes = <<last_call.result>>

-----------------------------------------------------------------------------
(* Claims about the rounds of run_combat *)

\* the modifiers a round reset leaves of a list: every timed one a round older,
\* those that have run out dropped
RECURSIVE Aged(_)
Aged(mods) ==
    IF mods = <<>> THEN <<>>
    ELSE LET m == Head(mods)
         IN IF ~m.timed THEN <<m>> \o Aged(Tail(mods))
            ELSE IF m.duration - 1 <= 0 THEN Aged(Tail(mods))
            ELSE <<[m EXCEPT !.duration = m.duration - 1]>> \o Aged(Tail(mods))

\* the step resets actor a for a new round
RoundResets(a) ==
    /\ actor'[a].action_points = max_action_points(a)
    /\ actor'[a].attack_count = 0
    /\ actor'[a].advantage_count = 0
    /\ actor'[a].help_count = 0
    /\ actor'[a].modifiers = Aged(actor[a].modifiers)

\* the step resets nothing of actor a
ResetsNothingOf(a) ==
    /\ actor'[a].action_points <= actor[a].action_points
    /\ actor'[a].attack_count >= actor[a].attack_count
    /\ actor'[a].help_count >= actor[a].help_count
    /\ actor'[a].modifiers = actor[a].modifiers

\* C29: every run_round call begins with the round reset of every actor of the turn
\* order (action points at the maximum, attack, advantage and help counts 0, timed
\* modifiers a round older or expired), the first turn of the round starts from
\* actors so reset, and no step between the turns of the round resets anything.
C29_ResetBeforeTurnsOnly ==
    [][/\ (pc = "while" /\ pc' = "for") => \A a \in Range(turn_order) : RoundResets(a)
       /\ (pc = "for" /\ round_turns = <<>> /\ pc' = "turn") =>
             \A a \in Range(turn_order) :
                /\ actor[a].action_points = max_action_points(a)
                /\ actor[a].attack_count = 0
                /\ actor[a].advantage_count = 0
                /\ actor[a].help_count = 0
       /\ (pc \in {"for", "turn"} /\ pc' \in {"for", "turn"}) =>
             \A a \in Actors : ResetsNothingOf(a)]_vars

\* a later round is about to see its first turn: turns have been played, every
\* actor is back at its full action points and a1's timed modifier has run out
C29_Witness ==
    /\ pc = "for"
    /\ round_turns = <<>>
    /\ turns_count >= Len(turn_order)
    /\ \A a \in Actors : actor[a].action_points = max_action_points(a)
    /\ Len(actor["a1"].modifiers) < Len(ActorSheet["a1"].modifiers)
    /\ \E a \in Actors : actor[a].health_points < max_health_points(a)

\* the place of an actor in the turn order
PlaceInTurnOrder(a) == CHOOSE i \in 1..Len(turn_order) : turn_order[i] = a

\* C30: within one run_round call no actor is given more than one turn, and the
\* actors given a turn follow each other as in the turn order, also when dead
\* actors of the turn order are skipped.
C30_OneTurnEachInTurnOrder ==
    \A i \in 1..Len(round_turns) : \A j \in (i + 1)..Len(round_turns) :
        /\ round_turns[i] # round_turns[j]
        /\ PlaceInTurnOrder(round_turns[i]) < PlaceInTurnOrder(round_turns[j])

-----------------------------------------------------------------------------
(* Claims about the full dodge during a combat *)

\* C27: in a combat run by the CombatManager, an actor's full-dodge flag is cleared
\* when that actor's own turn begins: the step that starts execute_turn for an
\* actor leaves that actor not full-dodging.
C27_FullDodgeEndsAtOwnTurn ==
    [][(pc = "for" /\ pc' = "turn") => ~actor'[cur'].is_full_dodging]_vars


-----------------------------------------------------------------------------
(* Claims about the counters of the CombatManager *)

\* C31: the round counter increases by exactly 1 per round played: whenever
\* run_combat has returned, the num_rounds it returned is the number of rounds
\* (round-reset phases) started since the manager was reset.
C31_RoundCounterCountsRounds ==
    pc = "done" => result.num_rounds = rounds_started

-----------------------------------------------------------------------------
(* Claims about the targeting during a combat *)

\* a is aiming at nobody or at a living actor of the opposing team, in the actors A
NoneOrLivingEnemy(A, a) ==
    \/ A[a].current_target = NONE
    \/ /\ A[a].current_target \in Range(enemies_of(a))
       /\ A[A[a].current_target].health_points > 0

\* the step is a direct call of update_targeting for actor a
TargetingUpdatedFor(a) ==
    /\ ops' = ops + 1
    /\ last_call' = [op |-> "update_targeting", source |-> a]

\* C32: after every targeting update, and whenever the turn loop executes an
\* Attack, the acting actor's current target is none or a living member of the
\* opposing team, never a dead actor, an ally or the actor itself, in every target
\* mode.  The targeting updates are the direct calls of update_targeting and the
\* ones next_turn_actor and the entry of execute_turn make when a turn starts;
\* the Attack is the one a pass of the loop of execute_turn executes.
C32_TargetIsNoneOrLivingEnemy ==
    [][/\ \A a \in Actors : TargetingUpdatedFor(a) => NoneOrLivingEnemy(actor', a)
       /\ (pc = "for" /\ pc' = "turn") => NoneOrLivingEnemy(actor', cur')
       /\ (pc = "turn" /\ AttackPaidBy(cur)) =>
             /\ attack_log'.target \in Range(enemies_of(cur))
             /\ actor[attack_log'.target].health_points > 0]_vars

\* the living enemies of a that are aiming at a
LivingTargeters(a) ==
    {e \in Range(enemies_of(a)) :
        actor[e].health_points > 0 /\ actor[e].current_target = a}

LivingEnemies(a) == {e \in Range(enemies_of(a)) : actor[e].health_points > 0}

\* C33: a targeting update selects the new target among the living enemies that
\* currently target the acting actor whenever there is one, and only otherwise
\* among all living enemies; under target_weakest the chosen candidate has the
\* least health of the candidates and under target_strongest the most.
C33_TargetersFirst ==
    [][\A a \in Actors : TargetingUpdatedFor(a) =>
         LET candidates == IF LivingTargeters(a) # {} THEN LivingTargeters(a)
                           ELSE LivingEnemies(a)
             chosen == actor'[a].current_target
         IN IF candidates = {} THEN chosen = NONE
            ELSE /\ chosen \in candidates
                 /\ actor[a].target_mode = "target_weakest" =>
                       \A e \in candidates :
                          actor[chosen].health_points <= actor[e].health_points
                 /\ actor[a].target_mode = "target_strongest" =>
                       \A e \in candidates :
                          actor[chosen].health_points >= actor[e].health_points]_vars

\* the number of times x stands in the list of targeters of y
TimesTargeting(x, y) ==
    Cardinality({i \in 1..Len(actor[y].targeting_enemies) :
                    actor[y].targeting_enemies[i] = x})

\* C34: for all actors x and y, between any two operations of a combat, x stands
\* in y's list of targeters exactly once if the current target of x is y and not
\* at all otherwise: the list holds no duplicate and nobody who aims elsewhere.
C34_TargetersMatchTargets ==
    \A x \in Actors : \A y \in Actors :
        TimesTargeting(x, y) = IF actor[x].current_target = y THEN 1 ELSE 0

-----------------------------------------------------------------------------
(* Claims about the damage types *)

\* the modifiers of one kind declared for the damage type t or for a type t is a
\* subtype of
DeclaredForIndices(mods, kind, t, mult) ==
    {i \in 1..Len(mods) :
        /\ mods[i].kind = kind
        /\ IsInstance(t, mods[i].damage_type)
        /\ mods[i].is_multiplicative = mult}

\* the final damage when exactly those resistances and vulnerabilities apply
DamageWhenDeclaredApply(mods, damage) ==
    LET t == damage.damage_type
        addR == SumOver(mods, DeclaredForIndices(mods, "Resistance", t, FALSE))
        mulR == ProductOver(mods, DeclaredForIndices(mods, "Resistance", t, TRUE))
        addV == SumOver(mods, DeclaredForIndices(mods, "Vulnerability", t, FALSE))
        mulV == ProductOver(mods, DeclaredForIndices(mods, "Vulnerability", t, TRUE))
        reduction == ReductionOver(mods, {i \in 1..Len(mods) : mods[i].kind = "DefenseModifier"},
                                   IsInstance(t, "Physical"))
    IN Max(0, ((damage.value - addR) * mulR + addV) * mulV - reduction)

\* C35: a resistance or vulnerability applies to a damage event exactly when the
\* event's damage type is the modifier's declared type or a subtype of it: a
\* modifier declared for Physical applies to Fire or Slashing damage, one declared
\* for Fire applies neither to Slashing damage nor to damage of the Physical type.
C35_ModifierCoversSubtypes ==
    \A i \in 1..Len(damage_log) :
        Len(damage_log[i].damages) = 1 =>
            damage_log[i].total_damage
               = DamageWhenDeclaredApply(actor[damage_log[i].target].modifiers,
                                         damage_log[i].damages[1])

-----------------------------------------------------------------------------
(* Claims about the modifiers of an actor and of its items *)

\* what actor.resistances, actor.vulnerabilities and the defense properties read
\* from the holder h: the modifiers that contribute
Contributing(h) ==
    Range(get_cached_modifiers(h, "Resistance").mods)
        \cup Range(get_cached_modifiers(h, "Vulnerability").mods)
        \cup Range(Actor_aggregate_modifiers(h, "DefenseModifier"))

\* C36: a timed modifier of duration d contributes to the actor's resistances,
\* vulnerabilities and defenses for exactly d round resets: a round reset takes 1
\* from the remaining duration of each contributing timed modifier, after it no
\* modifier whose remaining duration has reached 0 still contributes, the actor's
\* own or one attached to an item it holds, the others still do, and a modifier
\* of infinite duration is never removed.
C36_TimedModifierLastsItsDuration ==
    [][(ops' = ops + 1 /\ last_call' = [op |-> "new_round"]) =>
         \A m \in Contributing(entity) :
            IF entity.heap[m].timed
            THEN /\ entity'.heap[m].duration = entity.heap[m].duration - 1
                 /\ m \in Contributing(entity') <=> entity'.heap[m].duration > 0
            ELSE m \in Contributing(entity')]_vars

\* C39: after any sequence of add_item, remove_item, add_modifier and
\* remove_modifier on an actor, and of add_modifier and remove_modifier on an item
\* the actor holds, the cached resistances, vulnerabilities and conditions of the
\* actor equal a fresh aggregation over the modifiers of the items it holds and
\* its own: the cache is never stale.
C39_CacheNeverStale ==
    \A k \in {"Resistance", "Vulnerability", "Condition"} :
        entity.cache[k] # <<>> => entity.cache[k][1] = Actor_aggregate_modifiers(entity, k)

-----------------------------------------------------------------------------
(* Claims about the traits of entities *)

\* the entity holds a trait of the name
HoldsTrait(w, e, name) ==
    \E i \in 1..Len(w.base_traits[e]) : w.heap[w.base_traits[e][i]].name = name

UpdatedTraitsOf(e) ==
    /\ ops' = ops + 1
    /\ last_call' = [op |-> "update_traits", entity |-> e]

\* C37: an update of an entity takes 1 off the duration of every trait the
\* entity holds and removes exactly those that reach 0 or less; no entity ever
\* holds two traits of one name; and a trait added with a finite duration
\* d >= 1 is held for exactly d updates of the entity, a same-named addition
\* leaving the larger of the two remaining durations.
C37_TraitLastsItsDuration ==
    [][\A e \in EntityNames :
          /\ UpdatedTraitsOf(e) =>
                /\ \A t \in Range(entity.base_traits[e]) :
                      entity'.heap[t].duration =
                          IF entity.heap[t].duration = inf THEN inf
                          ELSE entity.heap[t].duration - 1
                /\ entity'.base_traits[e] =
                      SelectSeq(entity.base_traits[e],
                                LAMBDA t : entity'.heap[t].duration > 0)
          /\ \A i, j \in 1..Len(entity'.base_traits[e]) :
                entity'.heap[entity'.base_traits[e][i]].name =
                    entity'.heap[entity'.base_traits[e][j]].name => i = j
          /\ \A n \in TraitNames :
                n \notin entity'.unaccounted[e] =>
                   (HoldsTrait(entity', e, n) <=> entity'.expected[e][n] > 0)]_vars

\* C38: an update of one target of an ImposeTrait action leaves the duration of
\* every trait held by every other target as it was, and leaves every trait of
\* the action's own list as it was.
C38_ImposedTraitsExpireIndependently ==
    [][\A e \in EntityNames :
          UpdatedTraitsOf(e) =>
             /\ \A x \in EntityNames \ {e} :
                   \A t \in Range(entity.base_traits[x]) :
                      entity'.heap[t].duration = entity.heap[t].duration
             /\ \A traits \in ImposedTraitLists :
                   \A t \in Range(traits) :
                      entity'.heap[t].duration = entity.heap[t].duration]_vars

-----------------------------------------------------------------------------
(* Claims about the turn order *)

\* the list holds every member of the set exactly once
HoldsEachOnce(order, members) ==
    /\ Len(order) = Cardinality(members)
    /\ Range(order) = members

\* the lists without repetition over a set of actors
TeamsOver(members) ==
    {team \in UNION {[1..n -> members] : n \in 0..Cardinality(members)} :
        \A i, j \in 1..Len(team) : team[i] = team[j] => i = j}

\* C40: the turn order roll_initiative leaves holds every actor of the two
\* teams exactly once, and so does the order determine_turn_order gives for
\* two teams of any sizes, whatever the rolls and whoever wins the initiative;
\* once rolled, the turn order is the same after every step of the combat.
C40_TurnOrderHoldsEveryActorOnce ==
    [][/\ has_initiative' => HoldsEachOnce(turn_order', Actors)
       /\ has_initiative => turn_order' = turn_order
       /\ ~has_initiative /\ has_initiative' =>
             \A team_A \in TeamsOver(Actors) :
                \A team_B \in TeamsOver(Actors \ Range(team_A)) :
                   \A rolls \in [Actors -> InitiativeFaces] :
                      \A monsters_win \in BOOLEAN :
                         HoldsEachOnce(
                            determine_turn_order(sorted_by_initiative(team_A, rolls),
                                                 sorted_by_initiative(team_B, rolls),
                                                 monsters_win),
                            Range(team_A) \cup Range(team_B))]_vars

\* a combat that returned after more than one round and the death of an actor,
\* with the turn order it rolled
C40_Witness ==
    /\ pc = "done"
    /\ has_initiative
    /\ rounds_started >= 2
    /\ \E a \in Actors : ~is_alive(actor, a)
    /\ HoldsEachOnce(turn_order, Actors)

=========================================================================
